---- MODULE Spec2Model ----
(***************************************************************************)
(* Model of the obsidian-gdocs sync plugin: the sync engine's per-folder   *)
(* pass (src/sync/sync-engine.ts) over the vault, the metadata store, the  *)
(* Google Docs store and the two converters.                               *)
(*                                                                         *)
(* Strings are sequences of one-character strings, so that trim,           *)
(* startsWith, concatenation and index arithmetic are computed as the code *)
(* computes them.                                                          *)
(***************************************************************************)
EXTENDS Integers, Sequences, FiniteSets, TLC

(***************************************************************************)
(* Bounds of the model.                                                    *)
(***************************************************************************)
\* number of edits users make to the files, the document and the metadata
MaxEdits == 3
\* number of documents the store lets the user create
MaxDocs == 1
\* number of folders in the vault syncAllFolders walks
MaxFolders == 3
\* number of edits users make when they may also edit while a pass runs
MaxRaceEdits == 2
\* number of folders nested below the synced folder
MaxDepth == 5
\* number of paragraphs of the documents read back on their own
MaxParagraphs == 4
\* number of text runs of a paragraph of these documents
MaxRuns == 2
\* number of paragraphs of the documents pulled into a vault folder
MaxPulled == 3
\* interval timers the window hands out, and ticks it delivers, in one run
MaxTimers == 3
MaxTicks == 2
\* number of lines of the texts ConflictResolver merges
MaxMergeLines == 2
\* number of lines of the texts ConflictResolver compares
MaxDiffLines == 3

(***************************************************************************)
(* Strings.                                                                *)
(***************************************************************************)
NL == "\n"
SP == " "
Whitespace == {NL, SP}

None == [none |-> TRUE]

RECURSIVE Concat(_)
\* concatenation of a sequence of strings
Concat(ss) == IF ss = <<>> THEN <<>> ELSE Head(ss) \o Concat(Tail(ss))

RECURSIVE Join(_, _)
\* Array.prototype.join
Join(ss, sep) ==
  IF ss = <<>> THEN <<>>
  ELSE IF Len(ss) = 1 THEN ss[1]
  ELSE ss[1] \o sep \o Join(Tail(ss), sep)

RECURSIVE TrimStart(_)
TrimStart(s) ==
  IF s # <<>> /\ Head(s) \in Whitespace THEN TrimStart(Tail(s)) ELSE s

RECURSIVE TrimEnd(_)
TrimEnd(s) ==
  IF s # <<>> /\ s[Len(s)] \in Whitespace
  THEN TrimEnd(SubSeq(s, 1, Len(s) - 1)) ELSE s

\* String.prototype.trim
Trim(s) == TrimEnd(TrimStart(s))

RECURSIVE StripTrailingNewlines(_)
\* text.replace(/\n+$/, '')
StripTrailingNewlines(s) ==
  IF s # <<>> /\ s[Len(s)] = NL
  THEN StripTrailingNewlines(SubSeq(s, 1, Len(s) - 1)) ELSE s

StartsWith(s, c) == s # <<>> /\ Head(s) = c

RECURSIVE Repeat(_, _)
\* String.prototype.repeat
Repeat(c, n) == IF n <= 0 THEN <<>> ELSE <<c>> \o Repeat(c, n - 1)

Min(a, b) == IF a < b THEN a ELSE b

\* decimal digit of a small number, as `${n}` prints it
Digit(n) ==
  CASE n = 0 -> "0" [] n = 1 -> "1" [] n = 2 -> "2" [] n = 3 -> "3"
    [] n = 4 -> "4" [] n = 5 -> "5" [] n = 6 -> "6" [] n = 7 -> "7"
    [] n = 8 -> "8" [] OTHER -> "9"

(***************************************************************************)
(* The document store (Google Docs).  A document body is a sequence of     *)
(* cells, one per character, cell k sitting at index k; a newline cell     *)
(* ends a paragraph and carries that paragraph's style.  The last cell is  *)
(* the trailing newline the store never removes.                           *)
(***************************************************************************)
NORMAL_TEXT == "NORMAL_TEXT"
HeadingStyle(level) ==
  CASE level = 1 -> "HEADING_1" [] level = 2 -> "HEADING_2"
    [] level = 3 -> "HEADING_3" [] level = 4 -> "HEADING_4"
    [] level = 5 -> "HEADING_5" [] level = 6 -> "HEADING_6"
    [] level = 7 -> "HEADING_7" [] level = 8 -> "HEADING_8"
    [] OTHER -> "HEADING_9"
HeadingStyles == {HeadingStyle(l) : l \in 1..6}

\* styleType.startsWith('HEADING_')
IsHeadingStyle(styleType) == styleType \in HeadingStyles
\* parseInt(styleType.replace('HEADING_', ''))
HeadingLevelOf(styleType) == CHOOSE l \in 1..6 : HeadingStyle(l) = styleType

Cell(c, ps, ind, b, i) ==
  [c |-> c, ps |-> ps, ind |-> ind, bold |-> b, italic |-> i]
PlainCell(c) == Cell(c, NORMAL_TEXT, FALSE, FALSE, FALSE)

\* body of a freshly created document: the trailing newline only
EmptyBody == <<PlainCell(NL)>>

\* position of the newline that ends the paragraph holding index k
RECURSIVE ParagraphEnd(_, _)
ParagraphEnd(cells, k) ==
  IF k >= Len(cells) \/ cells[k].c = NL THEN k ELSE ParagraphEnd(cells, k + 1)

\* position of the first cell of the paragraph holding index k
RECURSIVE ParagraphStart(_, _)
ParagraphStart(cells, k) ==
  IF k <= 1 \/ cells[k - 1].c = NL THEN k ELSE ParagraphStart(cells, k - 1)

\* insertText: the text goes in before the cell at `index`; new characters
\* take the paragraph style of the paragraph they are inserted into
InsertText(cells, text, index) ==
  LET at == cells[ParagraphEnd(cells, index)]
      new == [k \in 1..Len(text) |-> Cell(text[k], at.ps, at.ind, FALSE, FALSE)]
  IN SubSeq(cells, 1, index - 1) \o new \o SubSeq(cells, index, Len(cells))

\* updateParagraphStyle: every paragraph overlapping [startIndex, endIndex)
\* takes the fields named by the request
UpdateParagraphStyle(cells, startIndex, endIndex, style) ==
  [k \in 1..Len(cells) |->
     IF cells[k].c = NL /\ ParagraphStart(cells, k) < endIndex /\ k >= startIndex
     THEN [cells[k] EXCEPT !.ps = style.namedStyleType,
                           !.ind = IF style.indentStart = None THEN @
                                   ELSE style.indentStart]
     ELSE cells[k]]

\* updateTextStyle over [startIndex, endIndex)
UpdateTextStyle(cells, startIndex, endIndex, style) ==
  [k \in 1..Len(cells) |->
     IF k >= startIndex /\ k < endIndex
     THEN [cells[k] EXCEPT !.bold = IF style.bold THEN TRUE ELSE @,
                           !.italic = IF style.italic THEN TRUE ELSE @]
     ELSE cells[k]]

\* deleteContentRange over [startIndex, endIndex)
DeleteContentRange(cells, startIndex, endIndex) ==
  SubSeq(cells, 1, startIndex - 1) \o SubSeq(cells, endIndex, Len(cells))

\* the store accepts a request only when its indices lie inside the body and
\* the trailing newline is left alone
RequestValid(cells, req) ==
  CASE req.op = "insertText" -> req.index >= 1 /\ req.index <= Len(cells)
    [] req.op = "deleteContentRange" ->
         /\ req.startIndex >= 1 /\ req.startIndex < req.endIndex
         /\ req.endIndex <= Len(cells)
    [] OTHER ->
         /\ req.startIndex >= 1 /\ req.startIndex < req.endIndex
         /\ req.endIndex <= Len(cells) + 1

ApplyRequest(cells, req) ==
  CASE req.op = "insertText" -> InsertText(cells, req.text, req.index)
    [] req.op = "updateParagraphStyle" ->
         UpdateParagraphStyle(cells, req.startIndex, req.endIndex, req.style)
    [] req.op = "updateTextStyle" ->
         UpdateTextStyle(cells, req.startIndex, req.endIndex, req.style)
    [] OTHER -> DeleteContentRange(cells, req.startIndex, req.endIndex)

RECURSIVE ApplyRequests(_, _)
\* the requests of one batch, in order; the empty sequence (no body is empty)
\* when one of them is rejected: a batch is applied whole or not at all
ApplyRequests(cells, reqs) ==
  IF reqs = <<>> THEN cells
  ELSE IF ~RequestValid(cells, Head(reqs)) THEN <<>>
  ELSE LET rest == ApplyRequest(cells, Head(reqs))
       IN IF rest = <<>> THEN <<>> ELSE ApplyRequests(rest, Tail(reqs))

\* text runs of the cells from..to: maximal stretches of one text style
RECURSIVE TextRuns(_, _, _)
TextRuns(cells, from, to) ==
  IF from > to THEN <<>>
  ELSE LET same(k) == /\ cells[k].bold = cells[from].bold
                      /\ cells[k].italic = cells[from].italic
           last == CHOOSE e \in from..to :
                     /\ \A k \in from..e : same(k)
                     /\ (e = to \/ ~same(e + 1))
       IN <<[textRun |-> [content |-> [k \in 1..(last - from + 1) |->
                                          cells[from + k - 1].c],
                          textStyle |-> [bold |-> cells[from].bold,
                                         italic |-> cells[from].italic]]]>>
          \o TextRuns(cells, last + 1, to)

\* body.content as documents.get returns it: one element per paragraph
RECURSIVE BodyContent(_, _)
BodyContent(cells, from) ==
  IF from > Len(cells) THEN <<>>
  ELSE LET e == ParagraphEnd(cells, from)
       IN <<[paragraph |->
               [elements |-> TextRuns(cells, from, e),
                paragraphStyle |-> [namedStyleType |-> cells[e].ps,
                                    indentStart |-> cells[e].ind]],
             startIndex |-> from, endIndex |-> e + 1]>>
          \o BodyContent(cells, e + 1)

\* the GoogleDoc object documents.get answers with
GoogleDoc(documentId, d) ==
  [documentId |-> documentId, revisionId |-> d.rev,
   body |-> [content |-> BodyContent(d.cells, 1)]]
(***************************************************************************)
(* GoogleDocsToMarkdownConverter (src/converters/gdoc-to-markdown.ts).     *)
(***************************************************************************)
\* variant: a bold italic run is marked as a bold one
FormatRun_boldFirst(textRun) ==
  LET content == textRun.content
      style == textRun.textStyle
  IN IF style.bold THEN <<"*", "*">> \o content \o <<"*", "*">>
     ELSE IF style.italic THEN <<"*">> \o content \o <<"*">>
     ELSE content

\* one text run with the markdown markers of its bold/italic flags
FormatRun(textRun) ==
  LET content == textRun.content
      style == textRun.textStyle
  IN IF style.bold /\ style.italic
       THEN <<"*", "*", "*">> \o content \o <<"*", "*", "*">>
     ELSE IF style.bold THEN <<"*", "*">> \o content \o <<"*", "*">>
     ELSE IF style.italic THEN <<"*">> \o content \o <<"*">>
     ELSE content

\* /^[-]{3,}$/.test(s)
IsHorizontalRule(s) == Len(s) >= 3 /\ \A k \in 1..Len(s) : s[k] = "-"

convertParagraph(paragraph) ==
  IF paragraph.elements = <<>> THEN <<>>
  ELSE
    LET runs == [k \in 1..Len(paragraph.elements) |->
                   IF paragraph.elements[k].textRun.content # <<>>
                   THEN FormatRun(paragraph.elements[k].textRun) ELSE <<>>]
        text == StripTrailingNewlines(Concat(runs))
        styleType == paragraph.paragraphStyle.namedStyleType
    IN IF IsHorizontalRule(Trim(text)) THEN <<"-", "-", "-">>
       ELSE IF IsHeadingStyle(styleType)
         THEN Repeat("#", HeadingLevelOf(styleType)) \o <<SP>> \o text
       ELSE IF paragraph.paragraphStyle.indentStart
         THEN <<">", SP>> \o text
       ELSE text

RECURSIVE MarkdownLines(_, _, _, _)
\* the loop of convertToMarkdown over body.content[k..]
MarkdownLines(content, k, lines, previousWasHeading) ==
  IF k > Len(content) THEN lines
  ELSE
    LET line == convertParagraph(content[k].paragraph)
    IN IF Trim(line) # <<>>
       THEN LET isHeading == StartsWith(line, "#")
                spaced == IF lines # <<>> /\ (isHeading \/ ~previousWasHeading)
                          THEN Append(lines, <<>>) ELSE lines
            IN MarkdownLines(content, k + 1, Append(spaced, line), isHeading)
       ELSE MarkdownLines(content, k + 1, lines, previousWasHeading)

convertToMarkdown(doc) ==
  Join(MarkdownLines(doc.body.content, 1, <<>>, FALSE), <<NL>>)

getParagraphText(paragraph) ==
  StripTrailingNewlines(
    Concat([k \in 1..Len(paragraph.elements) |->
              paragraph.elements[k].textRun.content]))

RECURSIVE ExtractSections(_, _, _, _)
\* the loop of extractStructure over body.content[k..]; currentSection is
\* None until the first heading
ExtractSections(content, k, sections, currentSection) ==
  IF k > Len(content)
  THEN IF currentSection # None THEN Append(sections, currentSection)
       ELSE sections
  ELSE
    LET paragraph == content[k].paragraph
        text == getParagraphText(paragraph)
        styleType == paragraph.paragraphStyle.namedStyleType
    IN IF IsHeadingStyle(styleType)
       THEN ExtractSections(content, k + 1,
              IF currentSection # None THEN Append(sections, currentSection)
              ELSE sections,
              [level |-> HeadingLevelOf(styleType), title |-> Trim(text),
               content |-> <<>>])
       ELSE IF currentSection # None /\ Trim(text) # <<>>
       THEN LET line == convertParagraph(paragraph)
            IN IF Trim(line) # <<>>
               THEN ExtractSections(content, k + 1, sections,
                      [currentSection EXCEPT !.content =
                         IF @ # <<>> THEN @ \o <<NL, NL>> \o line ELSE line])
               ELSE ExtractSections(content, k + 1, sections, currentSection)
       ELSE ExtractSections(content, k + 1, sections, currentSection)

\* variant: what comes before the first heading is a section of its own
extractStructure_leadingSection(doc) ==
  ExtractSections(doc.body.content, 1, <<>>,
                  [level |-> 1, title |-> <<>>, content |-> <<>>])

extractStructure(doc) == ExtractSections(doc.body.content, 1, <<>>, None)
(***************************************************************************)
(* The vault.  A TFolder lists its children as a set; a TFile carries the  *)
(* text vault.read returns for it.                                         *)
(***************************************************************************)
METADATA_FILENAME ==
  <<".", "s", "y", "n", "c", "-", "m", "e", "t", "a", "d", "a", "t", "a",
    ".", "j", "s", "o", "n">>

\* collation order of the characters that occur in names
CharOrder == <<"-", ".", "/", "a", "b", "c", "d", "e", "j", "m", "n", "o",
               "s", "t", "x", "y">>
CharRank(c) == CHOOSE k \in 1..Len(CharOrder) : CharOrder[k] = c

RECURSIVE localeCompare(_, _)
\* a.localeCompare(b): negative, zero or positive
localeCompare(a, b) ==
  IF a = <<>> /\ b = <<>> THEN 0
  ELSE IF a = <<>> THEN -1
  ELSE IF b = <<>> THEN 1
  ELSE IF Head(a) = Head(b) THEN localeCompare(Tail(a), Tail(b))
  ELSE IF CharRank(Head(a)) < CharRank(Head(b)) THEN -1 ELSE 1

TFile(parentPath, basename, extension, data) ==
  [kind |-> "file", name |-> basename \o <<".">> \o extension,
   basename |-> basename, extension |-> extension,
   path |-> parentPath \o <<"/">> \o basename \o <<".">> \o extension,
   data |-> data]

\* the hidden metadata file as a child of its folder
MetadataTFile(parentPath, data) ==
  [kind |-> "file", name |-> METADATA_FILENAME,
   basename |-> <<".", "s", "y", "n", "c", "-", "m", "e", "t", "a", "d", "a",
                  "t", "a">>,
   extension |-> <<"j", "s", "o", "n">>,
   path |-> parentPath \o <<"/">> \o METADATA_FILENAME, data |-> data]

TFolder(name, path, children) ==
  [kind |-> "folder", name |-> name, path |-> path, children |-> children]

(***************************************************************************)
(* FolderParser (src/sync/folder-parser.ts).                               *)
(***************************************************************************)
\* variant: by name only, folders among the files
ChildBefore_byNameOnly(a, b) == localeCompare(a.name, b.name) < 0

\* the comparator of parseFolder: folders first, then by name
ChildBefore(a, b) ==
  IF a.kind = "folder" /\ b.kind # "folder" THEN TRUE
  ELSE IF a.kind # "folder" /\ b.kind = "folder" THEN FALSE
  ELSE localeCompare(a.name, b.name) < 0

RECURSIVE SortChildren(_)
\* folder.children.slice().sort(...)
SortChildren(children) ==
  IF children = {} THEN <<>>
  ELSE LET first == CHOOSE a \in children :
                      \A b \in children \ {a} : ChildBefore(a, b)
       IN <<first>> \o SortChildren(children \ {first})

\* position of the first occurrence of `sub` in s at or after `from`; 0 if none
RECURSIVE IndexOf(_, _, _)
IndexOf(s, sub, from) ==
  IF from + Len(sub) - 1 > Len(s) THEN 0
  ELSE IF SubSeq(s, from, from + Len(sub) - 1) = sub THEN from
  ELSE IndexOf(s, sub, from + 1)

FrontMatterOpen == <<"-", "-", "-">>
FrontMatterClose == <<NL, "-", "-", "-">>

\* matter(content).content of gray-matter: the text after a leading
\* '---' ... '---' block, or the whole text when it does not open with one
matter(content) ==
  IF \/ Len(content) < 3
     \/ SubSeq(content, 1, 3) # FrontMatterOpen
     \/ (Len(content) >= 4 /\ content[4] = "-")
  THEN content
  ELSE LET str == SubSeq(content, 4, Len(content))
           closeIndex == IndexOf(str, FrontMatterClose, 1)
       IN IF closeIndex = 0 THEN <<>>
          ELSE LET rest == SubSeq(str, closeIndex + 4, Len(str))
               IN IF StartsWith(rest, NL) THEN Tail(rest) ELSE rest

stripFrontMatter(content) == Trim(matter(content))

parseFile(file, level) ==
  [name |-> file.basename, path |-> file.path, type |-> "file",
   level |-> level, content |-> stripFrontMatter(file.data)]

RECURSIVE parseFolder(_, _)
RECURSIVE ParseChildren(_, _)
RECURSIVE ParseChildren_everyFile(_, _)
\* variant: every file of the folder is a note
ParseChildren_everyFile(children, baseLevel) ==
  IF children = <<>> THEN <<>>
  ELSE LET child == Head(children)
           rest == ParseChildren_everyFile(Tail(children), baseLevel)
       IN IF child.kind = "folder"
          THEN <<parseFolder(child, baseLevel + 1)>> \o rest
          ELSE <<parseFile(child, baseLevel + 1)>> \o rest

\* the loop of parseFolder over the sorted children
ParseChildren(children, baseLevel) ==
  IF children = <<>> THEN <<>>
  ELSE LET child == Head(children)
           rest == ParseChildren(Tail(children), baseLevel)
       IN IF child.name = METADATA_FILENAME THEN rest
          ELSE IF child.kind = "folder"
            THEN <<parseFolder(child, baseLevel + 1)>> \o rest
          ELSE IF child.extension = <<"m", "d">>
            THEN <<parseFile(child, baseLevel + 1)>> \o rest
          ELSE rest

parseFolder(folder, baseLevel) ==
  [name |-> folder.name, path |-> folder.path, type |-> "folder",
   level |-> baseLevel,
   children |-> ParseChildren(SortChildren(folder.children), baseLevel)]

RECURSIVE serializeFolderNode(_)
serializeFolderNode(node) ==
  LET head == (IF node.type = "folder" THEN <<"f", "o", "l", "d", "e", "r">>
               ELSE <<"f", "i", "l", "e">>)
              \o <<":">> \o node.name \o <<":", Digit(node.level)>>
      withContent == IF node.type = "file" /\ node.content # <<>>
                     THEN head \o <<":">> \o node.content ELSE head
  IN IF node.type = "folder" /\ node.children # <<>>
     THEN withContent
          \o <<":", "c", "h", "i", "l", "d", "r", "e", "n", ":", "[">>
          \o Concat([k \in 1..Len(node.children) |->
                       serializeFolderNode(node.children[k]) \o <<",">>])
          \o <<"]">>
     ELSE withContent

\* SHA-256 of a string, taken as collision free: equal digests, equal strings
hashString(str) == [sha256 |-> str]

calculateContentHash(content) == hashString(content)

\* variant: the names of all the files of the folder are hashed as well
calculateFolderHash_allFiles(folder) ==
  hashString(serializeFolderNode(parseFolder(folder, 1))
             \o Concat([k \in 1..Len(SortChildren(folder.children)) |->
                          SortChildren(folder.children)[k].name]))

calculateFolderHash(folder) == hashString(serializeFolderNode(parseFolder(folder, 1)))
(***************************************************************************)
(* GoogleDocsAPI request builders (src/google/oauth-server.ts).            *)
(***************************************************************************)
createInsertTextRequest(text, index) ==
  [op |-> "insertText", text |-> text, index |-> index]

createParagraphStyleRequest(startIndex, endIndex, style) ==
  [op |-> "updateParagraphStyle", startIndex |-> startIndex,
   endIndex |-> endIndex, style |-> style]

createTextStyleRequest(startIndex, endIndex, style) ==
  [op |-> "updateTextStyle", startIndex |-> startIndex,
   endIndex |-> endIndex, style |-> style]

(***************************************************************************)
(* marked.lexer on the fragment the model's files use: paragraphs, ATX      *)
(* headings and the blank lines between them, with strong and em inside.   *)
(***************************************************************************)
RECURSIVE SplitLines(_, _)
\* s.split('\n'), `cur` being the line read so far
SplitLines(s, cur) ==
  IF s = <<>> THEN <<cur>>
  ELSE IF Head(s) = NL THEN <<cur>> \o SplitLines(Tail(s), <<>>)
  ELSE SplitLines(Tail(s), Append(cur, Head(s)))

RECURSIVE LeadingHashes(_)
LeadingHashes(line) ==
  IF StartsWith(line, "#") THEN 1 + LeadingHashes(Tail(line)) ELSE 0

\* /^(#{1,6})(?=\s|$)/
IsHeadingLine(line) ==
  LET n == LeadingHashes(line)
  IN n >= 1 /\ n <= 6 /\ (Len(line) = n \/ line[n + 1] \in Whitespace)

IsBlankLine(line) == Trim(line) = <<>>

RECURSIVE InlineTokens(_)
\* the inline tokens of a text: `**...**` is a strong token, `*...*` an em
\* token, each holding the tokens of what it encloses, the rest text tokens
InlineTokens(text) ==
  LET star == IndexOf(text, <<"*">>, 1)
      strongClose == IndexOf(text, <<"*", "*">>, 4)
      emClose == IndexOf(text, <<"*">>, 3)
  IN IF text = <<>> THEN <<>>
     ELSE IF star = 0 THEN <<[type |-> "text", text |-> text]>>
     ELSE IF star > 1
       THEN <<[type |-> "text", text |-> SubSeq(text, 1, star - 1)]>>
            \o InlineTokens(SubSeq(text, star, Len(text)))
     ELSE IF StartsWith(Tail(text), "*") /\ strongClose # 0
       THEN <<[type |-> "strong",
               tokens |-> InlineTokens(SubSeq(text, 3, strongClose - 1))]>>
            \o InlineTokens(SubSeq(text, strongClose + 2, Len(text)))
     ELSE IF ~StartsWith(Tail(text), "*") /\ emClose # 0
       THEN <<[type |-> "em",
               tokens |-> InlineTokens(SubSeq(text, 2, emClose - 1))]>>
            \o InlineTokens(SubSeq(text, emClose + 1, Len(text)))
     ELSE <<[type |-> "text", text |-> text]>>

RECURSIVE LexLines(_, _, _)
\* block tokens of lines[k..]; `para` holds the lines of the open paragraph
LexLines(lines, k, para) ==
  LET close == IF para = <<>> THEN <<>>
               ELSE <<[type |-> "paragraph",
                       tokens |-> InlineTokens(Join(para, <<NL>>))]>>
  IN IF k > Len(lines) THEN close
     ELSE IF IsBlankLine(lines[k])
       THEN IF para # <<>>
            THEN close \o <<[type |-> "space"]>> \o LexLines(lines, k + 1, <<>>)
            ELSE LexLines(lines, k + 1, <<>>)
     ELSE IF IsHeadingLine(lines[k])
       THEN close
            \o <<[type |-> "heading", depth |-> LeadingHashes(lines[k]),
                  tokens |-> InlineTokens(Trim(SubSeq(lines[k],
                                            LeadingHashes(lines[k]) + 1,
                                            Len(lines[k]))))]>>
            \o LexLines(lines, k + 1, <<>>)
     ELSE LexLines(lines, k + 1, Append(para, lines[k]))

lexer(content) ==
  IF content = <<>> THEN <<>> ELSE LexLines(SplitLines(content, <<>>), 1, <<>>)

(***************************************************************************)
(* MarkdownToGoogleDocsConverter (src/converters/gdoc-to-markdown.ts,      *)
(* second class of the file).                                              *)
(***************************************************************************)
\* variant: the children of the root only
flattenNodes_topLevelOnly(node) ==
  IF node.type = "folder" THEN node.children ELSE <<>>

RECURSIVE flattenNodes(_)
\* the tree without its root, depth first
flattenNodes(node) ==
  IF node.type = "folder"
  THEN Concat([k \in 1..Len(node.children) |->
                 <<node.children[k]>> \o flattenNodes(node.children[k])])
  ELSE <<>>

Section(insertRequests, styleRequests, endIndex) ==
  [insertRequests |-> insertRequests, styleRequests |-> styleRequests,
   endIndex |-> endIndex]

\* variant: the level of the node is the level of the heading
createHeadingSection_uncapped(title, level, startIndex) ==
  LET text == title \o <<NL>>
      endIndex == startIndex + Len(text)
  IN Section(<<createInsertTextRequest(text, startIndex)>>,
             <<createParagraphStyleRequest(startIndex, endIndex - 1,
                 [namedStyleType |-> HeadingStyle(level),
                  indentStart |-> None])>>,
             endIndex)

createHeadingSection(title, level, startIndex) ==
  LET text == title \o <<NL>>
      endIndex == startIndex + Len(text)
      headingLevel == Min(level, 6)
  IN Section(<<createInsertTextRequest(text, startIndex)>>,
             <<createParagraphStyleRequest(startIndex, endIndex - 1,
                 [namedStyleType |-> HeadingStyle(headingLevel),
                  indentStart |-> None])>>,
             endIndex)

RECURSIVE processInlineTokens(_)
RECURSIVE InlineLoop(_, _, _, _)
\* the loop of processInlineTokens over tokens[k..]
InlineLoop(tokens, k, text, styles) ==
  IF k > Len(tokens) THEN [text |-> text, styles |-> styles]
  ELSE
    LET token == tokens[k]
        startPos == Len(text)
    IN IF token.type = "text"
       THEN InlineLoop(tokens, k + 1, text \o token.text, styles)
       ELSE
         LET nested == processInlineTokens(token.tokens)
             isStrong == token.type = "strong"
             mine == [start |-> startPos,
                      end |-> startPos + Len(nested.text),
                      bold |-> isStrong, italic |-> ~isStrong]
             merged == [j \in 1..Len(nested.styles) |->
                          [start |-> startPos + nested.styles[j].start,
                           end |-> startPos + nested.styles[j].end,
                           bold |-> nested.styles[j].bold \/ isStrong,
                           italic |-> nested.styles[j].italic \/ ~isStrong]]
         IN InlineLoop(tokens, k + 1, text \o nested.text,
                       styles \o <<mine>> \o merged)

\* text of the inline tokens and the stretches of it that are bold or italic
processInlineTokens(tokens) == InlineLoop(tokens, 1, <<>>, <<>>)

\* the requests of processParagraph for the text and the styled stretches
\* processInlineTokens found in it
ParagraphSection(text, styles, startIndex) ==
  Section(<<createInsertTextRequest(text \o <<NL>>, startIndex)>>,
          [k \in 1..Len(styles) |->
             createTextStyleRequest(startIndex + styles[k].start,
                                    startIndex + styles[k].end,
                                    [bold |-> styles[k].bold,
                                     italic |-> styles[k].italic])],
          startIndex + Len(text) + 1)

\* variant: the stretches are counted from the start of the document
processParagraph_absoluteStyles(token, startIndex) ==
  LET inline == processInlineTokens(token.tokens)
  IN Section(ParagraphSection(inline.text, inline.styles, startIndex).insertRequests,
             ParagraphSection(inline.text, inline.styles, 1).styleRequests,
             startIndex + Len(inline.text) + 1)

processParagraph(token, startIndex) ==
  LET inline == processInlineTokens(token.tokens)
  IN ParagraphSection(inline.text, inline.styles, startIndex)

processHeading(token, startIndex) ==
  LET headingText == processInlineTokens(token.tokens).text \o <<NL>>
      headingLevel == Min(token.depth, 6)
  IN Section(<<createInsertTextRequest(headingText, startIndex)>>,
             <<createParagraphStyleRequest(startIndex,
                 startIndex + Len(headingText) - 1,
                 [namedStyleType |-> HeadingStyle(headingLevel),
                  indentStart |-> None])>>,
             startIndex + Len(headingText))

processToken(token, startIndex) ==
  CASE token.type = "paragraph" -> processParagraph(token, startIndex)
    [] token.type = "heading" -> processHeading(token, startIndex)
    [] token.type = "space" ->
         Section(<<createInsertTextRequest(<<NL>>, startIndex)>>, <<>>,
                 startIndex + 1)
    [] OTHER -> Section(<<>>, <<>>, startIndex)

RECURSIVE ProcessTokens(_, _, _)
\* the loop of parseMarkdownContent over tokens[k..], acc being the result
\* so far
ProcessTokens(tokens, k, acc) ==
  IF k > Len(tokens) THEN acc
  ELSE LET result == processToken(tokens[k], acc.endIndex)
       IN ProcessTokens(tokens, k + 1,
            Section(acc.insertRequests \o result.insertRequests,
                    acc.styleRequests \o result.styleRequests,
                    result.endIndex))

parseMarkdownContent(content, startIndex) ==
  ProcessTokens(lexer(content), 1, Section(<<>>, <<>>, startIndex))

createFileSection(title, content, level, startIndex) ==
  LET titleText == title \o <<NL>>
      headingLevel == Min(level, 6)
      body == parseMarkdownContent(content, startIndex + Len(titleText))
  IN Section(<<createInsertTextRequest(titleText, startIndex)>>
               \o body.insertRequests,
             <<createParagraphStyleRequest(startIndex,
                 startIndex + Len(titleText) - 1,
                 [namedStyleType |-> HeadingStyle(headingLevel),
                  indentStart |-> None])>>
               \o body.styleRequests,
             body.endIndex)

RECURSIVE BuildRequests(_, _, _, _)
\* the loop of convertToGoogleDocs over nodes[k..]
BuildRequests(nodes, k, requests, currentIndex) ==
  IF k > Len(nodes) THEN requests
  ELSE
    LET node == nodes[k]
    IN IF node.type = "folder"
       THEN LET r == createHeadingSection(node.name, node.level, currentIndex)
            IN BuildRequests(nodes, k + 1,
                 requests \o r.insertRequests \o r.styleRequests, r.endIndex)
       ELSE IF node.content # <<>>
       THEN LET r == createFileSection(node.name, node.content, node.level,
                                       currentIndex)
            IN BuildRequests(nodes, k + 1,
                 requests \o r.insertRequests \o r.styleRequests, r.endIndex)
       ELSE BuildRequests(nodes, k + 1, requests, currentIndex)

\* the batch convertToGoogleDocs sends for a tree
ConvertRequests(rootNode) == BuildRequests(flattenNodes(rootNode), 1, <<>>, 1)
(***************************************************************************)
(* The world the engine runs in: one synced folder of markdown files, its  *)
(* metadata file, the document store and the plugin settings.              *)
(***************************************************************************)
FolderName == <<"d">>
FolderPath == <<"d">>

\* base names of the markdown files users keep in the folder
FileNames == {<<"a">>}
\* texts users type into a file
FileTexts == {<<>>, <<"x">>, <<"#", SP, "x">>}

RECURSIVE MkBody(_)
\* cells of a body made of the given paragraphs, before the trailing newline
MkBody(paragraphs) ==
  IF paragraphs = <<>> THEN EmptyBody
  ELSE LET p == Head(paragraphs)
       IN [k \in 1..Len(p.text) |-> PlainCell(p.text[k])]
          \o <<Cell(NL, p.style, FALSE, FALSE, FALSE)>>
          \o MkBody(Tail(paragraphs))

Para(style, text) == [style |-> style, text |-> text]

\* bodies users give the document when they edit it in the browser
RemoteBodies ==
  { MkBody(<<Para(HeadingStyle(1), <<"b">>), Para(NORMAL_TEXT, <<"x">>),
             Para(HeadingStyle(2), <<"a">>), Para(NORMAL_TEXT, <<"y">>)>>),
    MkBody(<<Para(HeadingStyle(2), <<"a">>), Para(NORMAL_TEXT, <<"y">>),
             Para(HeadingStyle(3), <<"b">>), Para(NORMAL_TEXT, <<"x">>)>>) }

DocIds == 1..MaxDocs

VARIABLES
  files,      \* base name -> text of each markdown file of the folder
  metaFile,   \* None, or the text of .sync-metadata.json
  docs,       \* document id -> None or [cells, rev]
  settings,   \* [refreshToken, expired]: a refresh token is stored, the
              \* stored access token has expired
  oauth,      \* this.oauth is set
  api,        \* this.api is set
  pc,         \* position of the running syncFolder call; "idle" when none
  loc,        \* local variables of the running call
  result,     \* the SyncResult the call returned; None before it returns
  trace,      \* collaborator calls of the running call, in order
  snap,       \* files, metaFile and docs when the call started
  last,       \* how the previous call ended, None after an edit
  edits,      \* number of edits made so far
  batch,      \* the running syncAllFolders call; None when none
  resolver,   \* the running ConflictResolver call; None when none
  conv,       \* the running parser, converter or metadata call; None when none
  other,      \* the call of syncFolder that runs besides the one of pc, while
              \* that one awaits: its pc, loc, result and trace; None when none
  plugin      \* the plugin object and the interval timers of the window;
              \* None when none

vars == <<files, metaFile, docs, settings, oauth, api, pc, loc, result, trace,
          snap, last, edits, batch, resolver, conv, other, plugin>>

\* text of the metadata file holding m (JSON.stringify) and a damaged text
Json(m) == [json |-> m]
Malformed == [malformed |-> TRUE]

\* the synced folder as the vault presents it
FolderOf(fs, mf) ==
  TFolder(FolderName, FolderPath,
    {TFile(FolderPath, n, <<"m", "d">>, fs[n]) : n \in DOMAIN fs}
    \cup (IF mf = None THEN {} ELSE {MetadataTFile(FolderPath, mf)}))

Folder == FolderOf(files, metaFile)

NoLocals ==
  [branch |-> "", metadata |-> None, folderTree |-> None,
   documentId |-> 0, localHash |-> None, remoteDoc |-> None,
   remoteHash |-> None, structure |-> None, index |-> 0, newHash |-> None,
   updatedDoc |-> None, clearCaller |-> "", endIndex |-> 0]

Init ==
  /\ files \in UNION {[S -> FileTexts] : S \in SUBSET FileNames}
  /\ metaFile = None
  /\ docs = [d \in DocIds |-> None]
  /\ settings = [refreshToken |-> FALSE, expired |-> FALSE]
  /\ oauth = FALSE
  /\ api = FALSE
  /\ pc = "idle"
  /\ loc = NoLocals
  /\ result = None
  /\ trace = <<>>
  /\ snap = None
  /\ last = None
  /\ edits = 0
  /\ batch = None
  /\ resolver = None
  /\ conv = None
  /\ other = None
  /\ plugin = None

(***************************************************************************)
(* MetadataManager (src/sync/metadata-manager.ts).                         *)
(***************************************************************************)
\* getAbstractFileByPath(metadataPath) !== null
hasMetadata == metaFile # None

\* JSON.parse of the file's text; null when the file is absent or damaged.
\* A remoteContentHash the text does not hold reads as undefined.
readMetadata ==
  IF metaFile = None \/ metaFile = Malformed THEN None
  ELSE LET object == metaFile.json
       IN [k \in DOMAIN object \cup {"remoteContentHash"} |->
             IF k \in DOMAIN object THEN object[k] ELSE None]

\* variant: the revision is not written
writeMetadata_noRevision(metadata) ==
  Json([k \in {f \in DOMAIN metadata :
                 f \notin {"remoteContentHash", "revisionId"}} |->
          metadata[k]])

\* the file after writeMetadata, created or overwritten alike: the text
\* JSON.stringify gives, which leaves out a property that is undefined
writeMetadata(metadata) ==
  Json([k \in {f \in DOMAIN metadata :
                 f # "remoteContentHash" \/ metadata[f] # None} |->
          metadata[k]])

(***************************************************************************)
(* How a call ends.                                                        *)
(***************************************************************************)
Called(op) == trace' = Append(trace, [op |-> op, arg |-> <<>>])
CalledWith(op, arg) == trace' = Append(trace, [op |-> op, arg |-> arg])

\* variant: no catch, the error leaves syncFolder and the caller has no result
Throws_uncaught(error) ==
  /\ result' = None
  /\ pc' = "idle"

\* the catch of syncFolder: any error becomes a failed result
Throws(error) ==
  /\ result' = [success |-> FALSE, message |-> "Sync failed",
                documentId |-> 0, conflicts |-> <<>>, error |-> error]
  /\ pc' = "done"

Returns(r) ==
  /\ result' = r
  /\ pc' = "done"

Success(message, documentId) ==
  [success |-> TRUE, message |-> message, documentId |-> documentId,
   conflicts |-> <<>>, error |-> <<>>]

\* `Failed to ...: ${error.message}` of the catch blocks of the branches
Wrapped(error) ==
  CASE loc.branch = "New" -> <<"Failed to create new sync">> \o error
    [] loc.branch = "Push" ->
         <<"Failed to sync existing", "Failed to push to remote">> \o error
    [] loc.branch = "Pull" ->
         <<"Failed to sync existing", "Failed to pull from remote">> \o error
    [] OTHER -> <<"Failed to sync existing">> \o error
(***************************************************************************)
(* SyncEngine (src/sync/sync-engine.ts).  One action per awaited call of   *)
(* a pass; a call that can be rejected chooses `ok`.                       *)
(***************************************************************************)
\* a caller (command, menu, timer) starts a pass on the folder
syncFolder ==
  /\ UNCHANGED <<batch, resolver, conv, other, plugin>>
  /\ pc = "idle"
  /\ pc' = "ensureValidToken"
  /\ snap' = [files |-> files, metaFile |-> metaFile, docs |-> docs]
  /\ trace' = <<>>
  /\ loc' = NoLocals
  /\ result' = None
  /\ UNCHANGED <<files, metaFile, docs, settings, oauth, api, last, edits>>

ensureValidToken ==
  /\ UNCHANGED <<batch, resolver, conv, other, plugin>>
  /\ pc = "ensureValidToken"
  /\ Called("ensureValidToken")
  /\ IF ~oauth \/ ~settings.refreshToken
     THEN /\ Throws(<<"Not authenticated. Please complete OAuth setup in settings.">>)
          /\ UNCHANGED <<settings, api>>
     ELSE IF settings.expired
     THEN \E ok \in BOOLEAN :
            IF ok
            THEN /\ settings' = [settings EXCEPT !.expired = FALSE]
                 /\ api' = TRUE
                 /\ pc' = "hasMetadata"
                 /\ UNCHANGED result
            ELSE /\ Throws(<<"Failed to refresh token">>)
                 /\ UNCHANGED <<settings, api>>
     ELSE /\ api' = TRUE
          /\ pc' = "hasMetadata"
          /\ UNCHANGED <<settings, result>>
  /\ UNCHANGED <<files, metaFile, docs, oauth, loc, snap, last, edits>>

syncFolder_hasMetadata ==
  /\ UNCHANGED <<batch, resolver, conv, other, plugin>>
  /\ pc = "hasMetadata"
  /\ Called("hasMetadata")
  /\ IF ~api
     THEN Throws(<<"API not initialized">>) /\ UNCHANGED loc
     ELSE /\ UNCHANGED result
          /\ IF hasMetadata
             THEN /\ pc' = "syncExisting_readMetadata"
                  /\ loc' = [loc EXCEPT !.branch = "Existing"]
             ELSE /\ pc' = "syncNew_parseFolder"
                  /\ loc' = [loc EXCEPT !.branch = "New"]
  /\ UNCHANGED <<files, metaFile, docs, settings, oauth, api, snap, last, edits>>

\* ---- clearDocument and convertToGoogleDocs, shared by syncNew and push ----

\* where a branch goes on once convertToGoogleDocs has returned
AfterConvert ==
  IF loc.branch = "New" THEN "syncNew_calculateFolderHash"
  ELSE "pushToRemote_calculateFolderHash"

\* where the pass goes on once clearDocument has returned: pushToRemote calls
\* convertToGoogleDocs, which clears again; convertToGoogleDocs sends its batch
\* unless the batch is empty
AfterClear ==
  IF loc.clearCaller = "pushToRemote" THEN "clearDocument_getDocument"
  ELSE IF ConvertRequests(loc.folderTree) # <<>>
    THEN "convertToGoogleDocs_batchUpdate"
  ELSE AfterConvert

clearDocument_getDocument ==
  /\ UNCHANGED <<batch, resolver, conv, other, plugin>>
  /\ pc = "clearDocument_getDocument"
  /\ Called("getDocument")
  /\ \E ok \in BOOLEAN :
       IF ok /\ docs[loc.documentId] # None
       THEN LET doc == GoogleDoc(loc.documentId, docs[loc.documentId])
                content == doc.body.content
                endIndex == IF Len(content) > 0
                            THEN content[Len(content)].endIndex ELSE 1
            IN /\ loc' = [loc EXCEPT !.endIndex = endIndex,
                                     !.clearCaller =
                                        IF endIndex > 2 THEN @
                                        ELSE "convertToGoogleDocs"]
               /\ pc' = IF endIndex > 2 THEN "clearDocument_batchUpdate"
                        ELSE AfterClear
               /\ UNCHANGED result
       ELSE /\ Throws(Wrapped(<<"Failed to get document">>))
            /\ UNCHANGED loc
  /\ UNCHANGED <<files, metaFile, docs, settings, oauth, api, snap, last, edits>>

\* documents.batchUpdate: the store applies the whole batch and moves the
\* revision on, or rejects it and changes nothing
batchUpdate(documentId, requests) ==
  LET d == docs[documentId]
      cells == IF d = None THEN <<>> ELSE ApplyRequests(d.cells, requests)
  IN IF d = None \/ cells = <<>> THEN None
     ELSE [cells |-> cells, rev |-> d.rev + 1]

clearDocument_batchUpdate ==
  /\ UNCHANGED <<batch, resolver, conv, other, plugin>>
  /\ pc = "clearDocument_batchUpdate"
  /\ Called("batchUpdate")
  /\ \E ok \in BOOLEAN :
       LET d == batchUpdate(loc.documentId,
                  <<[op |-> "deleteContentRange", startIndex |-> 1,
                     endIndex |-> loc.endIndex - 1]>>)
       IN IF ok /\ d # None
          THEN /\ docs' = [docs EXCEPT ![loc.documentId] = d]
               /\ pc' = AfterClear
               /\ loc' = [loc EXCEPT !.clearCaller = "convertToGoogleDocs"]
               /\ UNCHANGED result
          ELSE /\ Throws(Wrapped(<<"Failed to update document">>))
               /\ UNCHANGED <<docs, loc>>
  /\ UNCHANGED <<files, metaFile, settings, oauth, api, snap, last, edits>>

convertToGoogleDocs_batchUpdate ==
  /\ UNCHANGED <<batch, resolver, conv, other, plugin>>
  /\ pc = "convertToGoogleDocs_batchUpdate"
  /\ Called("batchUpdate")
  /\ \E ok \in BOOLEAN :
       LET d == batchUpdate(loc.documentId, ConvertRequests(loc.folderTree))
       IN IF ok /\ d # None
          THEN /\ docs' = [docs EXCEPT ![loc.documentId] = d]
               /\ pc' = AfterConvert
               /\ UNCHANGED result
          ELSE /\ Throws(Wrapped(<<"Failed to update document">>))
               /\ UNCHANGED docs
  /\ UNCHANGED <<files, metaFile, settings, oauth, api, loc, snap, last, edits>>
\* ---- syncNew ----

syncNew_parseFolder ==
  /\ UNCHANGED <<batch, resolver, conv, other, plugin>>
  /\ pc = "syncNew_parseFolder"
  /\ Called("parseFolder")
  /\ \E ok \in BOOLEAN :
       IF ok
       THEN /\ loc' = [loc EXCEPT !.folderTree = parseFolder(Folder, 1)]
            /\ pc' = "syncNew_createDocument"
            /\ UNCHANGED result
       ELSE /\ Throws(Wrapped(<<"vault read failed">>))
            /\ UNCHANGED loc
  /\ UNCHANGED <<files, metaFile, docs, settings, oauth, api, snap, last, edits>>

syncNew_createDocument ==
  /\ UNCHANGED <<batch, resolver, conv, other, plugin>>
  /\ pc = "syncNew_createDocument"
  /\ Called("createDocument")
  /\ \E ok \in BOOLEAN :
       LET free == {d \in DocIds : docs[d] = None}
       IN IF ok /\ free # {}
          THEN LET id == CHOOSE d \in free : \A e \in free : d <= e
               IN /\ docs' = [docs EXCEPT ![id] = [cells |-> EmptyBody,
                                                   rev |-> 1]]
                  /\ loc' = [loc EXCEPT !.documentId = id,
                                        !.clearCaller = "convertToGoogleDocs"]
                  /\ pc' = "clearDocument_getDocument"
                  /\ UNCHANGED result
          ELSE /\ Throws(Wrapped(<<"Failed to create document">>))
               /\ UNCHANGED <<docs, loc>>
  /\ UNCHANGED <<files, metaFile, settings, oauth, api, snap, last, edits>>

syncNew_calculateFolderHash ==
  /\ UNCHANGED <<batch, resolver, conv, other, plugin>>
  /\ pc = "syncNew_calculateFolderHash"
  /\ Called("parseFolder")
  /\ \E ok \in BOOLEAN :
       IF ok
       THEN /\ loc' = [loc EXCEPT !.newHash = calculateFolderHash(Folder)]
            /\ pc' = "syncNew_getDocument"
            /\ UNCHANGED result
       ELSE /\ Throws(Wrapped(<<"vault read failed">>))
            /\ UNCHANGED loc
  /\ UNCHANGED <<files, metaFile, docs, settings, oauth, api, snap, last, edits>>

syncNew_getDocument ==
  /\ UNCHANGED <<batch, resolver, conv, other, plugin>>
  /\ pc = "syncNew_getDocument"
  /\ Called("getDocument")
  /\ \E ok \in BOOLEAN :
       IF ok /\ docs[loc.documentId] # None
       THEN /\ loc' = [loc EXCEPT !.updatedDoc =
                         GoogleDoc(loc.documentId, docs[loc.documentId])]
            /\ pc' = "syncNew_writeMetadata"
            /\ UNCHANGED result
       ELSE /\ Throws(Wrapped(<<"Failed to get document">>))
            /\ UNCHANGED loc
  /\ UNCHANGED <<files, metaFile, docs, settings, oauth, api, snap, last, edits>>

\* variant: the hash of the document stored as the hash of the tree
CreatedMetadata_remoteHash(documentId, contentHash, updatedDoc) ==
  [googleDocId |-> documentId,
   folderPath |-> FolderPath,
   contentHash |-> calculateContentHash(convertToMarkdown(updatedDoc)),
   remoteContentHash |-> calculateContentHash(convertToMarkdown(updatedDoc)),
   revisionId |-> updatedDoc.revisionId]

\* the metadata syncNew writes
CreatedMetadata(documentId, contentHash, updatedDoc) ==
  [googleDocId |-> documentId,
   folderPath |-> FolderPath,
   contentHash |-> contentHash,
   remoteContentHash |-> calculateContentHash(convertToMarkdown(updatedDoc)),
   revisionId |-> updatedDoc.revisionId]

syncNew_writeMetadata ==
  /\ UNCHANGED <<batch, resolver, conv, other, plugin>>
  /\ pc = "syncNew_writeMetadata"
  /\ Called("writeMetadata")
  /\ \E ok \in BOOLEAN :
       IF ok
       THEN /\ metaFile' = writeMetadata(
                 CreatedMetadata(loc.documentId, loc.newHash, loc.updatedDoc))
            /\ Returns(Success("Created and synced", loc.documentId))
       ELSE /\ Throws(Wrapped(<<"vault write failed">>))
            /\ UNCHANGED metaFile
  /\ UNCHANGED <<files, docs, settings, oauth, api, loc, snap, last, edits>>

\* ---- syncExisting ----

syncExisting_readMetadata ==
  /\ UNCHANGED <<batch, resolver, conv, other, plugin>>
  /\ pc = "syncExisting_readMetadata"
  /\ Called("readMetadata")
  /\ \E ok \in BOOLEAN :
       LET metadata == IF ok THEN readMetadata ELSE None
       IN IF metadata = None
          THEN /\ Throws(Wrapped(<<"Metadata not found">>))
               /\ UNCHANGED loc
          ELSE /\ loc' = [loc EXCEPT !.metadata = metadata,
                                     !.documentId = metadata.googleDocId]
               /\ pc' = "syncExisting_calculateFolderHash"
               /\ UNCHANGED result
  /\ UNCHANGED <<files, metaFile, docs, settings, oauth, api, snap, last, edits>>

syncExisting_calculateFolderHash ==
  /\ UNCHANGED <<batch, resolver, conv, other, plugin>>
  /\ pc = "syncExisting_calculateFolderHash"
  /\ Called("parseFolder")
  /\ \E ok \in BOOLEAN :
       IF ok
       THEN /\ loc' = [loc EXCEPT !.localHash = calculateFolderHash(Folder)]
            /\ pc' = "syncExisting_getDocument"
            /\ UNCHANGED result
       ELSE /\ Throws(Wrapped(<<"vault read failed">>))
            /\ UNCHANGED loc
  /\ UNCHANGED <<files, metaFile, docs, settings, oauth, api, snap, last, edits>>

\* variant: the local hash compared with the stored remote hash
localChanged_remoteField(localHash, metadata) ==
  localHash # metadata.remoteContentHash

\* localHash !== metadata.contentHash
localChanged(localHash, metadata) == localHash # metadata.contentHash

\* variant: only the content of the document is compared
remoteChanged_contentOnly(remoteDoc, remoteHash, metadata) ==
  \/ metadata.remoteContentHash = None
  \/ remoteHash # metadata.remoteContentHash

\* revision differs, or no stored remote hash, or remote hash differs
remoteChanged(remoteDoc, remoteHash, metadata) ==
  \/ remoteDoc.revisionId # metadata.revisionId
  \/ metadata.remoteContentHash = None
  \/ remoteHash # metadata.remoteContentHash

\* variant: local changes win when both sides changed
Route_localFirst(isLocalChanged, isRemoteChanged) ==
  IF ~isLocalChanged /\ ~isRemoteChanged THEN "UpToDate"
  ELSE IF isLocalChanged THEN "Push"
  ELSE "Pull"

\* the branch syncExisting takes
Route(isLocalChanged, isRemoteChanged) ==
  IF ~isLocalChanged /\ ~isRemoteChanged THEN "UpToDate"
  ELSE IF isLocalChanged /\ isRemoteChanged THEN "Conflict"
  ELSE IF isLocalChanged THEN "Push"
  ELSE "Pull"

RECURSIVE NextSection_anyLevel(_, _)
\* variant: a section of any level with content gets a file
NextSection_anyLevel(structure, k) ==
  IF k > Len(structure) THEN 0
  ELSE IF structure[k].level >= 1 /\ structure[k].content # <<>> THEN k
  ELSE NextSection_anyLevel(structure, k + 1)

RECURSIVE NextSection(_, _)
\* index of the first section at or after k that updateLocalFiles writes a
\* file for; 0 when there is none
NextSection(structure, k) ==
  IF k > Len(structure) THEN 0
  ELSE IF structure[k].level >= 2 /\ structure[k].content # <<>> THEN k
  ELSE NextSection(structure, k + 1)

syncExisting_getDocument ==
  /\ UNCHANGED <<batch, resolver, conv, other, plugin>>
  /\ pc = "syncExisting_getDocument"
  /\ Called("getDocument")
  /\ \E ok \in BOOLEAN :
       IF ok /\ docs[loc.documentId] # None
       THEN LET remoteDoc == GoogleDoc(loc.documentId, docs[loc.documentId])
                remoteHash == calculateContentHash(convertToMarkdown(remoteDoc))
                branch == Route(localChanged(loc.localHash, loc.metadata),
                                remoteChanged(remoteDoc, remoteHash,
                                              loc.metadata))
                structure == extractStructure(remoteDoc)
                first == NextSection(structure, 1)
            IN /\ loc' = [loc EXCEPT !.remoteDoc = remoteDoc,
                                     !.remoteHash = remoteHash,
                                     !.branch = branch,
                                     !.clearCaller = "pushToRemote",
                                     !.structure =
                                        IF branch = "Pull" THEN structure
                                        ELSE @,
                                     !.index =
                                        IF branch = "Pull" THEN first ELSE @]
               /\ IF branch = "UpToDate"
                  THEN Returns(Success("Already up to date", loc.documentId))
                  ELSE /\ UNCHANGED result
                       /\ pc' = CASE branch = "Conflict" ->
                                       "handleConflict_parseFolder"
                                  [] branch = "Push" ->
                                       "pushToRemote_parseFolder"
                                  [] OTHER ->
                                       IF first # 0 THEN "updateLocalFiles"
                                       ELSE "pullFromRemote_calculateFolderHash"
       ELSE /\ Throws(Wrapped(<<"Failed to get document">>))
            /\ UNCHANGED loc
  /\ UNCHANGED <<files, metaFile, docs, settings, oauth, api, snap, last, edits>>

\* ---- handleConflict ----

\* variant: one conflict reported per side
ConflictResult_perSide(metadata, localTree, remoteStructure) ==
  [success |-> FALSE,
   message |-> "Conflict detected: both local and remote have changes",
   documentId |-> metadata.googleDocId,
   conflicts |->
     <<[type |-> "content",
        localVersion |-> Json(localTree),
        remoteVersion |-> Json(localTree),
        description |-> "Local content has changed since last sync"],
       [type |-> "content",
        localVersion |-> Json(remoteStructure),
        remoteVersion |-> Json(remoteStructure),
        description |-> "Remote content has changed since last sync"]>>,
   error |-> <<>>]

\* the result handleConflict returns
ConflictResult(metadata, localTree, remoteStructure) ==
  [success |-> FALSE,
   message |-> "Conflict detected: both local and remote have changes",
   documentId |-> metadata.googleDocId,
   conflicts |->
     <<[type |-> "content",
        localVersion |-> Json(localTree),
        remoteVersion |-> Json(remoteStructure),
        description |->
          "Both local and remote content have changed since last sync"]>>,
   error |-> <<>>]

\* variant: the conflict is reported and the local hash stored as synced
handleConflict_parseFolder_storesHash ==
  /\ UNCHANGED <<batch, resolver, conv, other, plugin>>
  /\ pc = "handleConflict_parseFolder"
  /\ Called("parseFolder")
  /\ \E ok \in BOOLEAN :
       IF ok
       THEN /\ Returns(ConflictResult(loc.metadata, parseFolder(Folder, 1),
                                      extractStructure(loc.remoteDoc)))
            /\ metaFile' = writeMetadata(
                 [loc.metadata EXCEPT !.contentHash = loc.localHash])
       ELSE /\ Throws(Wrapped(<<"vault read failed">>))
            /\ UNCHANGED metaFile
  /\ UNCHANGED <<files, docs, settings, oauth, api, loc, snap, last, edits>>

handleConflict_parseFolder ==
  /\ UNCHANGED <<batch, resolver, conv, other, plugin>>
  /\ pc = "handleConflict_parseFolder"
  /\ Called("parseFolder")
  /\ \E ok \in BOOLEAN :
       IF ok
       THEN Returns(ConflictResult(loc.metadata, parseFolder(Folder, 1),
                                   extractStructure(loc.remoteDoc)))
       ELSE Throws(Wrapped(<<"vault read failed">>))
  /\ UNCHANGED <<files, metaFile, docs, settings, oauth, api, loc, snap, last, edits>>
\* ---- pushToRemote ----

pushToRemote_parseFolder ==
  /\ UNCHANGED <<batch, resolver, conv, other, plugin>>
  /\ pc = "pushToRemote_parseFolder"
  /\ Called("parseFolder")
  /\ \E ok \in BOOLEAN :
       IF ok
       THEN /\ loc' = [loc EXCEPT !.folderTree = parseFolder(Folder, 1)]
            /\ pc' = "clearDocument_getDocument"
            /\ UNCHANGED result
       ELSE /\ Throws(Wrapped(<<"vault read failed">>))
            /\ UNCHANGED loc
  /\ UNCHANGED <<files, metaFile, docs, settings, oauth, api, snap, last, edits>>

\* variant: the new local hash is stored as soon as it is computed
pushToRemote_calculateFolderHash_storesHash ==
  /\ UNCHANGED <<batch, resolver, conv, other, plugin>>
  /\ pc = "pushToRemote_calculateFolderHash"
  /\ Called("parseFolder")
  /\ \E ok \in BOOLEAN :
       IF ok
       THEN /\ loc' = [loc EXCEPT !.newHash = calculateFolderHash(Folder)]
            /\ metaFile' = writeMetadata(
                 [loc.metadata EXCEPT
                    !.contentHash = calculateFolderHash(Folder)])
            /\ pc' = "pushToRemote_getDocument"
            /\ UNCHANGED result
       ELSE /\ Throws(Wrapped(<<"vault read failed">>))
            /\ UNCHANGED <<loc, metaFile>>
  /\ UNCHANGED <<files, docs, settings, oauth, api, snap, last, edits>>

pushToRemote_calculateFolderHash ==
  /\ UNCHANGED <<batch, resolver, conv, other, plugin>>
  /\ pc = "pushToRemote_calculateFolderHash"
  /\ Called("parseFolder")
  /\ \E ok \in BOOLEAN :
       IF ok
       THEN /\ loc' = [loc EXCEPT !.newHash = calculateFolderHash(Folder)]
            /\ pc' = "pushToRemote_getDocument"
            /\ UNCHANGED result
       ELSE /\ Throws(Wrapped(<<"vault read failed">>))
            /\ UNCHANGED loc
  /\ UNCHANGED <<files, metaFile, docs, settings, oauth, api, snap, last, edits>>

pushToRemote_getDocument ==
  /\ UNCHANGED <<batch, resolver, conv, other, plugin>>
  /\ pc = "pushToRemote_getDocument"
  /\ Called("getDocument")
  /\ \E ok \in BOOLEAN :
       IF ok /\ docs[loc.documentId] # None
       THEN /\ loc' = [loc EXCEPT !.updatedDoc =
                         GoogleDoc(loc.documentId, docs[loc.documentId])]
            /\ pc' = "pushToRemote_writeMetadata"
            /\ UNCHANGED result
       ELSE /\ Throws(Wrapped(<<"Failed to get document">>))
            /\ UNCHANGED loc
  /\ UNCHANGED <<files, metaFile, docs, settings, oauth, api, snap, last, edits>>

\* variant: the revision of the document is not renewed
PushedMetadata_oldRevision(metadata, newHash, updatedDoc) ==
  [metadata EXCEPT
     !.contentHash = newHash,
     !.remoteContentHash = calculateContentHash(convertToMarkdown(updatedDoc))]

\* the metadata pushToRemote writes: the stored one with three fields renewed
PushedMetadata(metadata, newHash, updatedDoc) ==
  [metadata EXCEPT
     !.contentHash = newHash,
     !.remoteContentHash = calculateContentHash(convertToMarkdown(updatedDoc)),
     !.revisionId = updatedDoc.revisionId]

pushToRemote_writeMetadata ==
  /\ UNCHANGED <<batch, resolver, conv, other, plugin>>
  /\ pc = "pushToRemote_writeMetadata"
  /\ Called("writeMetadata")
  /\ \E ok \in BOOLEAN :
       IF ok
       THEN /\ metaFile' = writeMetadata(
                 PushedMetadata(loc.metadata, loc.newHash, loc.updatedDoc))
            /\ Returns(Success("Pushed local changes to Google Docs",
                               loc.metadata.googleDocId))
       ELSE /\ Throws(Wrapped(<<"vault write failed">>))
            /\ UNCHANGED metaFile
  /\ UNCHANGED <<files, docs, settings, oauth, api, loc, snap, last, edits>>

\* ---- pullFromRemote ----

\* one round of the loop of updateLocalFiles that writes: vault.modify when
\* the file exists, vault.create otherwise
updateLocalFiles ==
  /\ UNCHANGED <<batch, resolver, conv, other, plugin>>
  /\ pc = "updateLocalFiles"
  /\ CalledWith("writeFile", loc.structure[loc.index].title)
  /\ \E ok \in BOOLEAN :
       IF ok
       THEN LET section == loc.structure[loc.index]
                next == NextSection(loc.structure, loc.index + 1)
            IN /\ files' = [n \in DOMAIN files \cup {section.title} |->
                              IF n = section.title THEN section.content
                              ELSE files[n]]
               /\ loc' = [loc EXCEPT !.index = next]
               /\ pc' = IF next # 0 THEN "updateLocalFiles"
                        ELSE "pullFromRemote_calculateFolderHash"
               /\ UNCHANGED result
       ELSE /\ Throws(Wrapped(<<"vault write failed">>))
            /\ UNCHANGED <<files, loc>>
  /\ UNCHANGED <<metaFile, docs, settings, oauth, api, snap, last, edits>>

pullFromRemote_calculateFolderHash ==
  /\ UNCHANGED <<batch, resolver, conv, other, plugin>>
  /\ pc = "pullFromRemote_calculateFolderHash"
  /\ Called("parseFolder")
  /\ \E ok \in BOOLEAN :
       IF ok
       THEN /\ loc' = [loc EXCEPT !.newHash = calculateFolderHash(Folder)]
            /\ pc' = "pullFromRemote_writeMetadata"
            /\ UNCHANGED result
       ELSE /\ Throws(Wrapped(<<"vault read failed">>))
            /\ UNCHANGED loc
  /\ UNCHANGED <<files, metaFile, docs, settings, oauth, api, snap, last, edits>>

\* variant: the hash of the folder before the pull is kept
PulledMetadata_oldLocalHash(metadata, newLocalHash, remoteHash, remoteDoc) ==
  [metadata EXCEPT
     !.remoteContentHash = remoteHash,
     !.revisionId = remoteDoc.revisionId]

\* the metadata pullFromRemote writes
PulledMetadata(metadata, newLocalHash, remoteHash, remoteDoc) ==
  [metadata EXCEPT
     !.contentHash = newLocalHash,
     !.remoteContentHash = remoteHash,
     !.revisionId = remoteDoc.revisionId]

pullFromRemote_writeMetadata ==
  /\ UNCHANGED <<batch, resolver, conv, other, plugin>>
  /\ pc = "pullFromRemote_writeMetadata"
  /\ Called("writeMetadata")
  /\ \E ok \in BOOLEAN :
       IF ok
       THEN /\ metaFile' = writeMetadata(
                 PulledMetadata(loc.metadata, loc.newHash, loc.remoteHash,
                                loc.remoteDoc))
            /\ Returns(Success("Pulled changes from Google Docs",
                               loc.remoteDoc.documentId))
       ELSE /\ Throws(Wrapped(<<"vault write failed">>))
            /\ UNCHANGED metaFile
  /\ UNCHANGED <<files, docs, settings, oauth, api, loc, snap, last, edits>>

\* ---- the caller takes the result ----

\* the store calls of a pass that changed a document
StoreWrites == {"createDocument", "batchUpdate"}

\* the sides users edited while the pass ran, once it had computed its first
\* fingerprint (the tree it parsed or hashed)
EditsMissed(events) ==
  {events[k].op : k \in {j \in 1..Len(events) :
                           /\ events[j].op \in {"EditLocal", "EditRemote"}
                           /\ \E i \in 1..j - 1 : events[i].op = "parseFolder"}}

Return ==
  /\ UNCHANGED <<batch, resolver, conv, other, plugin>>
  /\ pc = "done"
  /\ pc' = "idle"
  /\ last' = [branch |-> loc.branch, success |-> result.success,
              failedCall |-> IF result.error # <<>> /\ trace # <<>>
                             THEN trace[Len(trace)].op ELSE "",
              mutated |-> docs # snap.docs,
              edited |-> EditsMissed(trace)]
  /\ loc' = NoLocals
  /\ result' = None
  /\ trace' = <<>>
  /\ snap' = None
  /\ UNCHANGED <<files, metaFile, docs, settings, oauth, api, edits>>

(***************************************************************************)
(* What happens between passes: users edit files and the document, unlink  *)
(* the folder, change the settings; tokens expire.                         *)
(***************************************************************************)
EditLocal ==
  /\ UNCHANGED <<batch, resolver, conv, other, plugin>>
  /\ pc = "idle"
  /\ edits < MaxEdits
  /\ \E n \in FileNames, t \in FileTexts :
       /\ (n \in DOMAIN files => files[n] # t)
       /\ files' = [m \in DOMAIN files \cup {n} |->
                      IF m = n THEN t ELSE files[m]]
  /\ last' = None
  /\ edits' = edits + 1
  /\ UNCHANGED <<metaFile, docs, settings, oauth, api, pc, loc, result, trace,
                 snap>>

DeleteLocal ==
  /\ UNCHANGED <<batch, resolver, conv, other, plugin>>
  /\ pc = "idle"
  /\ edits < MaxEdits
  /\ \E n \in DOMAIN files :
       files' = [m \in DOMAIN files \ {n} |-> files[m]]
  /\ last' = None
  /\ edits' = edits + 1
  /\ UNCHANGED <<metaFile, docs, settings, oauth, api, pc, loc, result, trace,
                 snap>>

\* an edit of the linked document in the browser: any body, also the same one
\* again (the revision moves on either way)
EditRemote ==
  /\ UNCHANGED <<batch, resolver, conv, other, plugin>>
  /\ pc = "idle"
  /\ edits < MaxEdits
  /\ readMetadata # None
  /\ \E cells \in RemoteBodies :
       LET d == readMetadata.googleDocId
       IN docs' = [docs EXCEPT ![d] = [cells |-> cells, rev |-> @.rev + 1]]
  /\ last' = None
  /\ edits' = edits + 1
  /\ UNCHANGED <<files, metaFile, settings, oauth, api, pc, loc, result, trace,
                 snap>>

\* the unlink command: deleteMetadata
deleteMetadata ==
  /\ UNCHANGED <<batch, resolver, conv, other, plugin>>
  /\ pc = "idle"
  /\ edits < MaxEdits
  /\ metaFile # None
  /\ metaFile' = None
  /\ last' = None
  /\ edits' = edits + 1
  /\ UNCHANGED <<files, docs, settings, oauth, api, pc, loc, result, trace,
                 snap>>

\* the metadata file is damaged outside the plugin
DamageMetadata ==
  /\ UNCHANGED <<batch, resolver, conv, other, plugin>>
  /\ pc = "idle"
  /\ edits < MaxEdits
  /\ metaFile \notin {None, Malformed}
  /\ metaFile' = Malformed
  /\ last' = None
  /\ edits' = edits + 1
  /\ UNCHANGED <<files, docs, settings, oauth, api, pc, loc, result, trace,
                 snap>>

\* updateSettings after the client id and secret were entered:
\* initializeAPI creates the OAuth manager
updateSettings_credentials ==
  /\ UNCHANGED <<batch, resolver, conv, other, plugin>>
  /\ pc = "idle"
  /\ ~oauth
  /\ oauth' = TRUE
  /\ UNCHANGED <<files, metaFile, docs, settings, api, pc, loc, result, trace,
                 snap, last, edits>>

\* updateSettings after the authorize flow stored fresh tokens
updateSettings_tokens ==
  /\ UNCHANGED <<batch, resolver, conv, other, plugin>>
  /\ pc = "idle"
  /\ oauth
  /\ ~settings.refreshToken
  /\ settings' = [refreshToken |-> TRUE, expired |-> FALSE]
  /\ api' = TRUE
  /\ UNCHANGED <<files, metaFile, docs, oauth, pc, loc, result, trace, snap,
                 last, edits>>

\* the access token reaches its expiry time
TokenExpires ==
  /\ UNCHANGED <<batch, resolver, conv, other, plugin>>
  /\ pc = "idle"
  /\ settings.refreshToken
  /\ ~settings.expired
  /\ settings' = [settings EXCEPT !.expired = TRUE]
  /\ UNCHANGED <<files, metaFile, docs, oauth, api, pc, loc, result, trace,
                 snap, last, edits>>

Next ==
  \/ syncFolder
  \/ ensureValidToken
  \/ syncFolder_hasMetadata
  \/ clearDocument_getDocument
  \/ clearDocument_batchUpdate
  \/ convertToGoogleDocs_batchUpdate
  \/ syncNew_parseFolder
  \/ syncNew_createDocument
  \/ syncNew_calculateFolderHash
  \/ syncNew_getDocument
  \/ syncNew_writeMetadata
  \/ syncExisting_readMetadata
  \/ syncExisting_calculateFolderHash
  \/ syncExisting_getDocument
  \/ handleConflict_parseFolder
  \/ pushToRemote_parseFolder
  \/ pushToRemote_calculateFolderHash
  \/ pushToRemote_getDocument
  \/ pushToRemote_writeMetadata
  \/ updateLocalFiles
  \/ pullFromRemote_calculateFolderHash
  \/ pullFromRemote_writeMetadata
  \/ Return
  \/ EditLocal
  \/ DeleteLocal
  \/ EditRemote
  \/ deleteMetadata
  \/ DamageMetadata
  \/ updateSettings_credentials
  \/ updateSettings_tokens
  \/ TokenExpires

\* the steps of a running pass
PassStep ==
  \/ ensureValidToken
  \/ syncFolder_hasMetadata
  \/ clearDocument_getDocument
  \/ clearDocument_batchUpdate
  \/ convertToGoogleDocs_batchUpdate
  \/ syncNew_parseFolder
  \/ syncNew_createDocument
  \/ syncNew_calculateFolderHash
  \/ syncNew_getDocument
  \/ syncNew_writeMetadata
  \/ syncExisting_readMetadata
  \/ syncExisting_calculateFolderHash
  \/ syncExisting_getDocument
  \/ handleConflict_parseFolder
  \/ pushToRemote_parseFolder
  \/ pushToRemote_calculateFolderHash
  \/ pushToRemote_getDocument
  \/ pushToRemote_writeMetadata
  \/ updateLocalFiles
  \/ pullFromRemote_calculateFolderHash
  \/ pullFromRemote_writeMetadata

Spec == Init /\ [][Next]_vars

\* every awaited call of a pass settles, so a running pass takes its next step
FairSpec == Spec /\ WF_vars(PassStep)

TypeOK ==
  /\ pc \in {"idle", "done", "ensureValidToken", "hasMetadata",
             "clearDocument_getDocument", "clearDocument_batchUpdate",
             "convertToGoogleDocs_batchUpdate", "syncNew_parseFolder",
             "syncNew_createDocument", "syncNew_calculateFolderHash",
             "syncNew_getDocument", "syncNew_writeMetadata",
             "syncExisting_readMetadata", "syncExisting_calculateFolderHash",
             "syncExisting_getDocument", "handleConflict_parseFolder",
             "pushToRemote_parseFolder", "pushToRemote_calculateFolderHash",
             "pushToRemote_getDocument", "pushToRemote_writeMetadata",
             "updateLocalFiles", "pullFromRemote_calculateFolderHash",
             "pullFromRemote_writeMetadata"}
  /\ (pc = "done") = (result # None)
  /\ edits \in 0..MaxEdits

(***************************************************************************)
(* The pass in terms of the world it started from.  Files, documents and   *)
(* metadata only change between passes or by the pass itself, so `snap`    *)
(* is what the pass read.                                                  *)
(***************************************************************************)
\* the pass started on a folder whose metadata file holds readable metadata
SnapLinked ==
  /\ pc # "idle"
  /\ snap.metaFile # None
  /\ snap.metaFile # Malformed

SnapMetadata == snap.metaFile.json

SnapDoc ==
  GoogleDoc(SnapMetadata.googleDocId, snap.docs[SnapMetadata.googleDocId])

\* the local tree differs from the one of the last successful sync
SnapLocalChanged ==
  calculateFolderHash(FolderOf(snap.files, snap.metaFile))
    # SnapMetadata.contentHash

\* the document differs from the one of the last successful sync
SnapRemoteChanged ==
  \/ SnapDoc.revisionId # SnapMetadata.revisionId
  \/ SnapMetadata.remoteContentHash = None
  \/ calculateContentHash(convertToMarkdown(SnapDoc))
       # SnapMetadata.remoteContentHash

\* the calls of the running pass so far, by name
Calls == {trace[k].op : k \in 1..Len(trace)}

\* the running pass left files, metadata and documents as it found them
NothingWritten ==
  /\ files = snap.files
  /\ metaFile = snap.metaFile
  /\ docs = snap.docs
  /\ Calls \cap (StoreWrites \cup {"writeFile", "writeMetadata"}) = {}

\* where a pass can be once it has taken a branch
BranchSteps(branch) ==
  CASE branch = "UpToDate" -> {"done"}
    [] branch = "Conflict" -> {"handleConflict_parseFolder", "done"}
    [] branch = "Push" ->
         {"pushToRemote_parseFolder", "clearDocument_getDocument",
          "clearDocument_batchUpdate", "convertToGoogleDocs_batchUpdate",
          "pushToRemote_calculateFolderHash", "pushToRemote_getDocument",
          "pushToRemote_writeMetadata", "done"}
    [] branch = "Pull" ->
         {"updateLocalFiles", "pullFromRemote_calculateFolderHash",
          "pullFromRemote_writeMetadata", "done"}

(***************************************************************************)
(* C1.  A pass on a linked folder with readable metadata that got as far   *)
(* as comparing takes the one branch its pair (localChanged,               *)
(* remoteChanged) selects: (F,F) UpToDate, (T,F) Push, (F,T) Pull, (T,T)   *)
(* Conflict.  It runs the steps of that branch only: documents are         *)
(* written by Push alone, files by Pull alone, metadata by Push and Pull.  *)
(***************************************************************************)
C1_ExactlyOneBranch ==
  (SnapLinked /\ loc.remoteDoc # None) =>
    /\ loc.branch =
         (CASE ~SnapLocalChanged /\ ~SnapRemoteChanged -> "UpToDate"
            [] SnapLocalChanged /\ ~SnapRemoteChanged -> "Push"
            [] ~SnapLocalChanged /\ SnapRemoteChanged -> "Pull"
            [] SnapLocalChanged /\ SnapRemoteChanged -> "Conflict")
    /\ pc \in BranchSteps(loc.branch)
    /\ loc.branch # "Push" => docs = snap.docs /\ Calls \cap StoreWrites = {}
    /\ loc.branch # "Pull" => files = snap.files /\ "writeFile" \notin Calls
    /\ loc.branch \in {"UpToDate", "Conflict"} =>
         metaFile = snap.metaFile /\ "writeMetadata" \notin Calls

\* a pass that found local changes only has pushed them
C1_Witness ==
  /\ SnapLinked
  /\ pc = "done"
  /\ SnapLocalChanged /\ ~SnapRemoteChanged
  /\ loc.branch = "Push"
  /\ docs # snap.docs

(***************************************************************************)
(* C2.  A pass that finds both sides changed ends with success = FALSE     *)
(* and has written nothing: files, metadata and documents are as before    *)
(* the call.  When its calls all succeeded the result carries exactly one  *)
(* conflict, of type content, whose localVersion is the serialized local   *)
(* tree and whose remoteVersion is the serialized sections of the          *)
(* document.                                                               *)
(***************************************************************************)
C2_ConflictChangesNothing ==
  (SnapLinked /\ pc = "done" /\ SnapLocalChanged /\ SnapRemoteChanged) =>
    /\ result.success = FALSE
    /\ NothingWritten
    /\ result.error = <<>> =>
         /\ Len(result.conflicts) = 1
         /\ result.conflicts[1].type = "content"
         /\ result.conflicts[1].localVersion = Json(parseFolder(Folder, 1))
         /\ result.conflicts[1].remoteVersion = Json(extractStructure(SnapDoc))
         /\ result.documentId = SnapMetadata.googleDocId

\* a conflict has been reported on a folder holding a file
C2_Witness ==
  /\ SnapLinked
  /\ pc = "done"
  /\ SnapLocalChanged /\ SnapRemoteChanged
  /\ result.conflicts # <<>>
  /\ DOMAIN files # {}

(***************************************************************************)
(* C3.  A pass on a folder without metadata whose calls all succeed        *)
(* creates exactly one document and returns success with its id; the       *)
(* metadata it leaves names that document and holds the hash of the tree   *)
(* as it is at the end of the pass, and hasMetadata is true afterwards.    *)
(***************************************************************************)
C3_FirstSyncLinks ==
  (pc = "done" /\ snap.metaFile = None /\ result.error = <<>>) =>
    LET created == {d \in DocIds : snap.docs[d] = None /\ docs[d] # None}
    IN /\ result.success
       /\ Cardinality({k \in 1..Len(trace) : trace[k].op = "createDocument"}) = 1
       /\ created = {result.documentId}
       /\ \A d \in DocIds \ created : docs[d] = snap.docs[d]
       /\ hasMetadata
       /\ readMetadata # None
       /\ readMetadata.googleDocId = result.documentId
       /\ readMetadata.contentHash = calculateFolderHash(Folder)

\* a folder holding a non-empty file has been linked to a new document
C3_Witness ==
  /\ pc = "done"
  /\ snap.metaFile = None
  /\ result.success
  /\ \E n \in DOMAIN files : files[n] # <<>>
  /\ docs[result.documentId].cells # EmptyBody

(***************************************************************************)
(* C4.  A pass that finds neither side changed returns success with        *)
(* 'Already up to date' and calls no createDocument, no clearDocument or   *)
(* batchUpdate, writes no file and no metadata.                            *)
(***************************************************************************)
C4_UpToDateIsReadOnly ==
  (SnapLinked /\ pc = "done" /\ ~SnapLocalChanged /\ ~SnapRemoteChanged
     /\ result.error = <<>>) =>
    /\ result = Success("Already up to date", SnapMetadata.googleDocId)
    /\ NothingWritten
    /\ Calls = {"ensureValidToken", "hasMetadata", "readMetadata",
                "parseFolder", "getDocument"}

\* a pass has found a linked folder with content up to date
C4_Witness ==
  /\ SnapLinked
  /\ pc = "done"
  /\ result.success
  /\ result.message = "Already up to date"
  /\ \E n \in DOMAIN files : files[n] # <<>>

(***************************************************************************)
(* C5.  When a push ends successfully the stored metadata holds the hash   *)
(* of the tree as it is now, the hash of the markdown of the document as   *)
(* it is after the rewrite and the revision of that document; googleDocId  *)
(* and folderPath are the ones stored before.                              *)
(***************************************************************************)
C5_PushRefreshesMetadata ==
  (SnapLinked /\ pc = "done" /\ SnapLocalChanged /\ ~SnapRemoteChanged
     /\ result.error = <<>>) =>
    LET updatedDoc ==
          GoogleDoc(SnapMetadata.googleDocId, docs[SnapMetadata.googleDocId])
    IN /\ result = Success("Pushed local changes to Google Docs",
                           SnapMetadata.googleDocId)
       /\ readMetadata # None
       /\ readMetadata.contentHash = calculateFolderHash(Folder)
       /\ readMetadata.remoteContentHash =
            calculateContentHash(convertToMarkdown(updatedDoc))
       /\ readMetadata.revisionId = updatedDoc.revisionId
       /\ readMetadata.googleDocId = SnapMetadata.googleDocId
       /\ readMetadata.folderPath = SnapMetadata.folderPath

\* a push has rewritten a document and stored its new revision
C5_Witness ==
  /\ SnapLinked
  /\ pc = "done"
  /\ result.success
  /\ result.message = "Pushed local changes to Google Docs"
  /\ readMetadata.revisionId # SnapMetadata.revisionId
  /\ docs[SnapMetadata.googleDocId].cells # EmptyBody

\* a section that updateLocalFiles writes a file for
Materialized(section) == section.level >= 2 /\ section.content # <<>>

IsWriteFile(call) == call.op = "writeFile"

\* the sections of the document the pass started from
SnapStructure == extractStructure(SnapDoc)

\* the content of the last section named title that gets a file
LastContent(title) ==
  LET ks == {k \in 1..Len(SnapStructure) :
               Materialized(SnapStructure[k]) /\ SnapStructure[k].title = title}
  IN SnapStructure[CHOOSE k \in ks : \A j \in ks : j <= k].content

(***************************************************************************)
(* C6.  A pull writes a file for a section exactly when the section has    *)
(* level 2 or more and non-empty content, in document order; a section of  *)
(* level 1 never gets one.  Once the files are written the metadata holds  *)
(* the hash of the new tree, the remote hash computed at the start of the  *)
(* pass and the revision of the fetched document.                          *)
(***************************************************************************)
C6_PullMaterializesSections ==
  (SnapLinked /\ ~SnapLocalChanged /\ SnapRemoteChanged) =>
    LET written == SelectSeq(trace, IsWriteFile)
        due == SelectSeq(SnapStructure, Materialized)
    IN /\ Len(written) <= Len(due)
       /\ \A k \in 1..Len(written) : written[k].arg = due[k].title
       /\ (pc = "done" /\ result.error = <<>>) =>
            /\ result = Success("Pulled changes from Google Docs",
                                SnapMetadata.googleDocId)
            /\ Len(written) = Len(due)
            /\ DOMAIN files =
                 DOMAIN snap.files \cup {due[k].title : k \in 1..Len(due)}
            /\ \A n \in DOMAIN files :
                 files[n] = IF \E k \in 1..Len(due) : due[k].title = n
                            THEN LastContent(n) ELSE snap.files[n]
            /\ docs = snap.docs
            /\ readMetadata =
                 [SnapMetadata EXCEPT
                    !.contentHash = calculateFolderHash(Folder),
                    !.remoteContentHash =
                       calculateContentHash(convertToMarkdown(SnapDoc)),
                    !.revisionId = SnapDoc.revisionId]

\* a pull has written a file from a document that also has a level-1
\* section with content
C6_Witness ==
  /\ SnapLinked
  /\ pc = "done"
  /\ result.success
  /\ result.message = "Pulled changes from Google Docs"
  /\ "writeFile" \in Calls
  /\ \E k \in 1..Len(SnapStructure) :
       SnapStructure[k].level = 1 /\ SnapStructure[k].content # <<>>

(***************************************************************************)
(* C7.  Until a pass has ended successfully the metadata file is the one   *)
(* the pass started with: the write of the metadata is the last call of    *)
(* its branch, so a pass any of whose calls fails leaves the persisted     *)
(* metadata as it was before the call.                                     *)
(***************************************************************************)
C7_MetadataWrittenLast ==
  pc # "idle" =>
    /\ \A k \in 1..Len(trace) - 1 : trace[k].op # "writeMetadata"
    /\ ~(pc = "done" /\ result.success) => metaFile = snap.metaFile

\* a pass has failed after it wrote to the document or to a file
C7_Witness ==
  /\ pc = "done"
  /\ result.error # <<>>
  /\ docs # snap.docs \/ files # snap.files
  /\ snap.metaFile # None

(***************************************************************************)
(* C8.  After a push that failed because the store rejected a write, the   *)
(* next pass, with no edit by anyone in between, takes the Push branch     *)
(* again.  (`last` is the outcome of the previous pass and is forgotten    *)
(* as soon as anyone edits a file, the document or the metadata.)          *)
(***************************************************************************)
C8_FailedPushIsRetried ==
  (/\ pc # "idle"
   /\ last # None
   /\ last.branch = "Push"
   /\ ~last.success
   /\ last.failedCall = "batchUpdate"
   /\ loc.remoteDoc # None) =>
    /\ metaFile = snap.metaFile \/ pc = "done"
    /\ loc.branch = "Push"

\* the calls a branch ends with when it ends without an error
FinalCalls == {"writeMetadata", "getDocument", "parseFolder"}

\* what syncFolder returns is a SyncResult that is a success, a conflict
\* report, or a failure with its message and error
IsSyncResult(r) ==
  /\ r # None
  /\ r.success \in BOOLEAN
  /\ r.message # ""
  /\ r.success => r.error = <<>> /\ r.conflicts = <<>>
  /\ ~r.success =>
       \/ r.message = "Sync failed" /\ r.error # <<>> /\ r.conflicts = <<>>
       \/ r.error = <<>> /\ r.conflicts # <<>>

(***************************************************************************)
(* C9.  Every call of syncFolder ends by returning one SyncResult: a pass  *)
(* that has begun reaches the point where it returns, it never ends        *)
(* otherwise, and what it returns is a SyncResult; a pass cut short by an  *)
(* error returns success = FALSE with the message 'Sync failed' and an     *)
(* error string.                                                           *)
(***************************************************************************)
C9_OneResultPerCall ==
  /\ [](pc = "done" =>
          /\ IsSyncResult(result)
          /\ trace[Len(trace)].op \notin FinalCalls =>
               /\ ~result.success
               /\ result.message = "Sync failed"
               /\ result.error # <<>>)
  /\ [][pc \notin {"idle", "done"} => pc' # "idle"]_vars
  /\ [](pc = "ensureValidToken" => <>(pc = "done"))

\* an error thrown inside pullFromRemote has become a failed result
C9_Witness ==
  /\ pc = "done"
  /\ loc.branch = "Pull"
  /\ ~result.success
  /\ result.error # <<>>
  /\ trace[Len(trace)].op = "writeFile"

\* the error of a pass that cannot authenticate
NotAuthenticated ==
  <<"Not authenticated. Please complete OAuth setup in settings.">>

(***************************************************************************)
(* C10.  The first call of every pass is ensureValidToken, before any      *)
(* document, metadata or file is touched; a pass whose ensureValidToken    *)
(* fails (no OAuth manager, no refresh token, or the refresh rejected)     *)
(* ends as a failed result carrying the not-authenticated error, having    *)
(* made no other call and written nothing.                                 *)
(***************************************************************************)
C10_TokenFirstOrNotAuthenticated ==
  pc # "idle" =>
    /\ trace # <<>> => trace[1].op = "ensureValidToken"
    /\ trace = <<>> => pc = "ensureValidToken"
    /\ (pc = "done" /\ Len(trace) = 1) =>
         /\ ~result.success
         /\ result.error = NotAuthenticated
         /\ NothingWritten

(***************************************************************************)
(* SyncCommands.syncAllFolders (src/commands/sync-commands.ts).  The       *)
(* vault holds several folders, some with a metadata file; the pass the    *)
(* engine runs on a folder is a call that succeeds, returns a failed       *)
(* result, or throws.                                                      *)
(***************************************************************************)
\* the engine, which a batch leaves to the passes it starts
EngineVars ==
  <<files, metaFile, docs, settings, oauth, api, pc, loc, result, trace,
    snap, last, edits, other, plugin>>

\* the folders of the vault, in the order getAllLoadedFiles lists them
VaultFolders == 1..MaxFolders

\* how a call of syncEngine.syncFolder can end
PassOutcomes == {"success", "failed", "thrown"}

SyncAllInit ==
  /\ files = <<>>
  /\ metaFile = None
  /\ docs = [d \in DocIds |-> None]
  /\ settings \in [refreshToken : BOOLEAN, expired : {FALSE}]
  /\ oauth = FALSE
  /\ api = FALSE
  /\ pc = "idle"
  /\ loc = NoLocals
  /\ result = None
  /\ trace = <<>>
  /\ snap = None
  /\ last = None
  /\ edits = 0
  /\ batch \in [pc : {"idle"},
                linked : SUBSET VaultFolders,
                folders : {<<>>},
                index : {0},
                successCount : {0},
                errorCount : {0},
                outcomes : {<<>>}]
  /\ resolver = None
  /\ conv = None
  /\ other = None
  /\ plugin = None

\* the guard: without a refresh token the call returns at once
syncAllFolders ==
  /\ batch.pc = "idle"
  /\ batch' = [batch EXCEPT
                 !.pc = IF settings.refreshToken THEN "findSyncedFolders"
                        ELSE "returned"]
  /\ UNCHANGED <<EngineVars, resolver, conv>>

RECURSIVE FoldersWithMetadata(_, _)
\* the loop of findSyncedFolders over the files from folder k on
FoldersWithMetadata(linked, k) ==
  IF k > MaxFolders THEN <<>>
  ELSE (IF k \in linked THEN <<k>> ELSE <<>>)
         \o FoldersWithMetadata(linked, k + 1)

findSyncedFolders ==
  /\ batch.pc = "findSyncedFolders"
  /\ batch' = [batch EXCEPT !.folders = FoldersWithMetadata(batch.linked, 1),
                            !.index = 1,
                            !.pc = "syncFolder"]
  /\ UNCHANGED <<EngineVars, resolver, conv>>

\* variant: no try/catch around the pass, a thrown error ends the call
syncAllFolders_syncFolder_uncaught ==
  /\ batch.pc = "syncFolder"
  /\ batch.index <= Len(batch.folders)
  /\ \E outcome \in PassOutcomes :
       batch' = [batch EXCEPT
                   !.outcomes = Append(@, outcome),
                   !.successCount = IF outcome = "success" THEN @ + 1 ELSE @,
                   !.errorCount = IF outcome = "failed" THEN @ + 1 ELSE @,
                   !.index = @ + 1,
                   !.pc = IF outcome = "thrown" THEN "returned" ELSE @]
  /\ UNCHANGED <<EngineVars, resolver, conv>>

\* one round of the loop: the pass of folders[index] and the counting of
\* its result, a thrown error being caught and counted
syncAllFolders_syncFolder ==
  /\ batch.pc = "syncFolder"
  /\ batch.index <= Len(batch.folders)
  /\ \E outcome \in PassOutcomes :
       batch' = [batch EXCEPT
                   !.outcomes = Append(@, outcome),
                   !.successCount = IF outcome = "success" THEN @ + 1 ELSE @,
                   !.errorCount = IF outcome = "success" THEN @ ELSE @ + 1,
                   !.index = @ + 1]
  /\ UNCHANGED <<EngineVars, resolver, conv>>

\* after the loop: the status line is stored and the call returns
syncAllFolders_saveSettings ==
  /\ batch.pc = "syncFolder"
  /\ batch.index > Len(batch.folders)
  /\ batch' = [batch EXCEPT !.pc = "returned"]
  /\ UNCHANGED <<EngineVars, resolver, conv>>

SyncAllNext ==
  \/ syncAllFolders
  \/ findSyncedFolders
  \/ syncAllFolders_syncFolder
  \/ syncAllFolders_saveSettings

SyncAllSpec == SyncAllInit /\ [][SyncAllNext]_vars

(***************************************************************************)
(* C11.  syncAllFolders, called with a refresh token stored, runs the pass *)
(* of every folder that has a metadata file, one after another in the      *)
(* order found; a pass that fails or throws is counted and the passes of   *)
(* the remaining folders still run.  When the call returns successCount +  *)
(* errorCount is the number of linked folders found.                       *)
(***************************************************************************)
C11_BatchIsolatesFailures ==
  /\ batch.successCount + batch.errorCount = Len(batch.outcomes)
  /\ batch.successCount =
       Cardinality({k \in 1..Len(batch.outcomes) : batch.outcomes[k] = "success"})
  /\ batch.pc = "syncFolder" => Len(batch.outcomes) = batch.index - 1
  /\ (batch.pc = "returned" /\ settings.refreshToken) =>
       /\ Len(batch.folders) = Cardinality(batch.linked)
       /\ {batch.folders[k] : k \in 1..Len(batch.folders)} = batch.linked
       /\ Len(batch.outcomes) = Len(batch.folders)
       /\ batch.successCount + batch.errorCount = Cardinality(batch.linked)

\* a batch has returned in which a pass threw, a pass failed and a later
\* pass succeeded
C11_Witness ==
  /\ batch.pc = "returned"
  /\ \E i, j, k \in 1..Len(batch.outcomes) :
       /\ i < k /\ j < k
       /\ batch.outcomes[i] = "thrown"
       /\ batch.outcomes[j] = "failed"
       /\ batch.outcomes[k] = "success"

(***************************************************************************)
(* Edits while a pass runs.  Nothing keeps a user from saving a file or    *)
(* changing the document between two awaited calls of a pass; the edit is  *)
(* an event of the pass, kept in `trace`.                                  *)
(***************************************************************************)
\* the pass goes on, the edit is noted; between passes there is none
NoteEdit(op, arg) ==
  /\ pc # "done"
  /\ edits < MaxRaceEdits
  /\ edits' = edits + 1
  /\ last' = None
  /\ IF pc = "idle" THEN UNCHANGED trace ELSE CalledWith(op, arg)
  /\ UNCHANGED <<pc, loc, result, snap, settings, oauth, api, batch, resolver,
               conv, other, plugin>>

EditLocal_anytime ==
  /\ \E n \in FileNames, t \in FileTexts :
       /\ (n \in DOMAIN files => files[n] # t)
       /\ files' = [m \in DOMAIN files \cup {n} |->
                      IF m = n THEN t ELSE files[m]]
       /\ NoteEdit("EditLocal", n)
  /\ UNCHANGED <<metaFile, docs>>

EditRemote_anytime ==
  /\ readMetadata # None \/ loc.documentId # 0
  /\ \E cells \in RemoteBodies :
       LET d == IF loc.documentId # 0 THEN loc.documentId
                ELSE readMetadata.googleDocId
       IN docs' = [docs EXCEPT ![d] = [cells |-> cells, rev |-> @.rev + 1]]
  /\ NoteEdit("EditRemote", <<>>)
  /\ UNCHANGED <<files, metaFile>>

RaceNext ==
  \/ syncFolder
  \/ PassStep
  \/ Return
  \/ updateSettings_credentials
  \/ updateSettings_tokens
  \/ EditLocal_anytime
  \/ EditRemote_anytime

RaceSpec == Init /\ [][RaceNext]_vars

\* the document is what a push of the local tree would make it
PushIsNoop(d) ==
  convertToMarkdown(GoogleDoc(d, docs[d])) =
    convertToMarkdown(GoogleDoc(d,
      [cells |-> ApplyRequests(EmptyBody,
                               ConvertRequests(parseFolder(Folder, 1))),
       rev |-> 0]))

\* the files are what a pull of the document would make them
PullIsNoop(d) ==
  LET structure == extractStructure(GoogleDoc(d, docs[d]))
  IN \A k \in 1..Len(structure) :
       Materialized(structure[k]) =>
         /\ structure[k].title \in DOMAIN files
         /\ \E j \in k..Len(structure) :
              /\ structure[j].title = structure[k].title
              /\ Materialized(structure[j])
              /\ files[structure[j].title] = structure[j].content

(***************************************************************************)
(* C12.  An edit that lands while a pass runs, after the pass computed its *)
(* first fingerprint, is missed at most until the next pass: the next      *)
(* pass, with no edit in between or during it, does not return 'Already    *)
(* up to date' while the local files and the document differ, that is,     *)
(* while neither a push nor a pull would leave things as they are.         *)
(***************************************************************************)
C12_MissedEditSeenByNextPass ==
  (/\ pc = "done"
   /\ last # None
   /\ last.edited # {}
   /\ EditsMissed(trace) = {}
   /\ result.success
   /\ result.message = "Already up to date") =>
    PushIsNoop(loc.documentId) \/ PullIsNoop(loc.documentId)

(***************************************************************************)
(* C13.  A conflict stays until somebody edits: the pass that follows a    *)
(* pass that ended in Conflict, with no edit of the files, the document or *)
(* the metadata in between, starts with the folder linked and both sides   *)
(* still changed, takes the Conflict branch again once it has fetched the  *)
(* document, writes nothing, and, when its calls succeed, returns the      *)
(* conflict again.  The retry the conflict chooser starts is such a pass.  *)
(***************************************************************************)
C13_ConflictPersists ==
  (/\ pc # "idle"
   /\ last # None
   /\ last.branch = "Conflict") =>
    /\ SnapLinked
    /\ SnapLocalChanged
    /\ SnapRemoteChanged
    /\ NothingWritten
    /\ loc.remoteDoc # None => loc.branch = "Conflict"
    /\ (pc = "done" /\ result.error = <<>>) =>
         ~result.success /\ Len(result.conflicts) = 1

\* the pass after a reported conflict has reported the conflict again
C13_Witness ==
  /\ pc = "done"
  /\ last # None
  /\ last.branch = "Conflict"
  /\ last.failedCall = ""
  /\ result.conflicts # <<>>

(***************************************************************************)
(* C14.  When the pass starts with a metadata file that is not valid JSON, *)
(* readMetadata returns null, and the pass treats the folder as unlinked:  *)
(* once it has looked for the metadata it is on the create-new path and    *)
(* does not end with 'Metadata not found'.                                 *)
(***************************************************************************)
C14_MalformedMetadataIsUnlinked ==
  (/\ pc # "idle"
   /\ snap.metaFile = Malformed
   /\ loc.branch # "") =>
    /\ readMetadata = None
    /\ loc.branch = "New"
    /\ pc = "done" =>
         result.error # <<"Failed to sync existing", "Metadata not found">>

\* the pass has compared and found the local side changed
FoundLocalChanged == loc.branch \in {"Push", "Conflict"}

\* the pass has compared and found the remote side changed
FoundRemoteChanged == loc.branch \in {"Pull", "Conflict"}

detectConflict_bothChanged(localHash, remoteHash, lastSyncHash) ==
  /\ localHash # lastSyncHash
  /\ remoteHash # lastSyncHash

\* localHash !== lastSyncHash && remoteHash !== lastSyncHash && ...
detectConflict(localHash, remoteHash, lastSyncHash) ==
  /\ localHash # lastSyncHash
  /\ remoteHash # lastSyncHash
  /\ localHash # remoteHash

\* the two things autoResolve returns: null, or the merged text
NoMerge == [null |-> TRUE, content |-> <<>>]

Merged(content) == [null |-> FALSE, content |-> content]

\* lines[i] || '', for the 0-based index i
LineAt(lines, i) == IF i < Len(lines) THEN lines[i + 1] ELSE <<>>

\* variant: the loop runs over the lines all three texts have
MaxLen_shortest(localLines, remoteLines, baseLines) ==
  LET lens == {Len(localLines), Len(remoteLines), Len(baseLines)}
  IN CHOOSE m \in lens : \A n \in lens : m <= n

\* Math.max of the three lengths
MaxLen(localLines, remoteLines, baseLines) ==
  LET lens == {Len(localLines), Len(remoteLines), Len(baseLines)}
  IN CHOOSE m \in lens : \A n \in lens : n <= m

RECURSIVE MergeLoop(_, _, _, _, _)
\* the for loop of tryLineMerge from index i on
MergeLoop(localLines, remoteLines, baseLines, i, merged) ==
  IF i >= MaxLen(localLines, remoteLines, baseLines)
  THEN [hasConflict |-> FALSE, merged |-> merged]
  ELSE LET localLine == LineAt(localLines, i)
           remoteLine == LineAt(remoteLines, i)
           baseLine == LineAt(baseLines, i)
       IN IF localLine = remoteLine
          THEN MergeLoop(localLines, remoteLines, baseLines, i + 1,
                         Append(merged, localLine))
          ELSE IF localLine = baseLine
          THEN MergeLoop(localLines, remoteLines, baseLines, i + 1,
                         Append(merged, remoteLine))
          ELSE IF remoteLine = baseLine
          THEN MergeLoop(localLines, remoteLines, baseLines, i + 1,
                         Append(merged, localLine))
          ELSE [hasConflict |-> TRUE, merged |-> merged]

\* variant: the lines merged before the conflict are returned
tryLineMerge_partial(localContent, remoteContent, baseContent) ==
  LET loop == MergeLoop(SplitLines(localContent, <<>>),
                        SplitLines(remoteContent, <<>>),
                        SplitLines(baseContent, <<>>), 0, <<>>)
  IN Merged(Join(loop.merged, <<NL>>))

tryLineMerge(localContent, remoteContent, baseContent) ==
  LET loop == MergeLoop(SplitLines(localContent, <<>>),
                        SplitLines(remoteContent, <<>>),
                        SplitLines(baseContent, <<>>), 0, <<>>)
  IN IF loop.hasConflict THEN NoMerge
     ELSE Merged(Join(loop.merged, <<NL>>))

\* variant: every call goes through the line merge
autoResolve_mergeOnly(localContent, remoteContent, baseContent) ==
  tryLineMerge(localContent, remoteContent, baseContent)

autoResolve(localContent, remoteContent, baseContent) ==
  IF localContent = baseContent THEN Merged(remoteContent)
  ELSE IF remoteContent = baseContent THEN Merged(localContent)
  ELSE IF localContent = remoteContent THEN Merged(localContent)
  ELSE tryLineMerge(localContent, remoteContent, baseContent)

RECURSIVE indexOf(_, _, _)
\* Array.prototype.indexOf, 0-based, -1 when the value is not found
indexOf(array, value, fromIndex) ==
  IF fromIndex >= Len(array) THEN -1
  ELSE IF array[fromIndex + 1] = value THEN fromIndex
  ELSE indexOf(array, value, fromIndex + 1)

\* `line ${n}`
Location(n) == <<"line", n>>

\* variant: the added line is located by its 0-based index
Added_zeroBased(newLines, j) ==
  [type |-> "added", location |-> Location(j), newValue |-> newLines[j + 1]]

Added(newLines, j) ==
  [type |-> "added", location |-> Location(j + 1), newValue |-> newLines[j + 1]]

Removed(oldLines, i) ==
  [type |-> "removed", location |-> Location(i + 1),
   oldValue |-> oldLines[i + 1]]

Modified(oldLines, i, newLines, j) ==
  [type |-> "modified", location |-> Location(i + 1),
   oldValue |-> oldLines[i + 1], newValue |-> newLines[j + 1]]

\* variant: two lines that differ are a modification, without looking ahead
DiffStep_noLookahead(d) ==
  IF d.i >= Len(d.oldLines)
  THEN [d EXCEPT !.diffs = Append(@, Added(d.newLines, d.j)), !.j = @ + 1]
  ELSE IF d.j >= Len(d.newLines)
  THEN [d EXCEPT !.diffs = Append(@, Removed(d.oldLines, d.i)), !.i = @ + 1]
  ELSE IF d.oldLines[d.i + 1] = d.newLines[d.j + 1]
  THEN [d EXCEPT !.i = @ + 1, !.j = @ + 1]
  ELSE [d EXCEPT
          !.diffs = Append(@, Modified(d.oldLines, d.i, d.newLines, d.j)),
          !.i = @ + 1, !.j = @ + 1]

\* variant: the insertion is preferred also when the two distances are equal
DiffStep_insertionOnTie(d) ==
  IF d.i >= Len(d.oldLines)
  THEN [d EXCEPT !.diffs = Append(@, Added(d.newLines, d.j)), !.j = @ + 1]
  ELSE IF d.j >= Len(d.newLines)
  THEN [d EXCEPT !.diffs = Append(@, Removed(d.oldLines, d.i)), !.i = @ + 1]
  ELSE IF d.oldLines[d.i + 1] = d.newLines[d.j + 1]
  THEN [d EXCEPT !.i = @ + 1, !.j = @ + 1]
  ELSE LET oldIndex == indexOf(d.newLines, d.oldLines[d.i + 1], d.j)
           newIndex == indexOf(d.oldLines, d.newLines[d.j + 1], d.i)
       IN IF /\ oldIndex # -1
             /\ (newIndex = -1 \/ oldIndex - d.j <= newIndex - d.i)
          THEN [d EXCEPT !.diffs = Append(@, Added(d.newLines, d.j)),
                         !.j = @ + 1]
          ELSE IF newIndex # -1
          THEN [d EXCEPT !.diffs = Append(@, Removed(d.oldLines, d.i)),
                         !.i = @ + 1]
          ELSE [d EXCEPT
                  !.diffs = Append(@, Modified(d.oldLines, d.i, d.newLines, d.j)),
                  !.i = @ + 1, !.j = @ + 1]

\* variant: a deletion leaves the old cursor where it is
DiffStep_deletionStays(d) ==
  IF d.i >= Len(d.oldLines)
  THEN [d EXCEPT !.diffs = Append(@, Added(d.newLines, d.j)), !.j = @ + 1]
  ELSE IF d.j >= Len(d.newLines)
  THEN [d EXCEPT !.diffs = Append(@, Removed(d.oldLines, d.i)), !.i = @ + 1]
  ELSE IF d.oldLines[d.i + 1] = d.newLines[d.j + 1]
  THEN [d EXCEPT !.i = @ + 1, !.j = @ + 1]
  ELSE LET oldIndex == indexOf(d.newLines, d.oldLines[d.i + 1], d.j)
           newIndex == indexOf(d.oldLines, d.newLines[d.j + 1], d.i)
       IN IF /\ oldIndex # -1
             /\ (newIndex = -1 \/ oldIndex - d.j < newIndex - d.i)
          THEN [d EXCEPT !.diffs = Append(@, Added(d.newLines, d.j)),
                         !.j = @ + 1]
          ELSE IF newIndex # -1
          THEN [d EXCEPT !.diffs = Append(@, Removed(d.oldLines, d.i))]
          ELSE [d EXCEPT
                  !.diffs = Append(@, Modified(d.oldLines, d.i, d.newLines, d.j)),
                  !.i = @ + 1, !.j = @ + 1]

\* one iteration of the while loop of generateDiff
DiffStep(d) ==
  IF d.i >= Len(d.oldLines)
  THEN [d EXCEPT !.diffs = Append(@, Added(d.newLines, d.j)), !.j = @ + 1]
  ELSE IF d.j >= Len(d.newLines)
  THEN [d EXCEPT !.diffs = Append(@, Removed(d.oldLines, d.i)), !.i = @ + 1]
  ELSE IF d.oldLines[d.i + 1] = d.newLines[d.j + 1]
  THEN [d EXCEPT !.i = @ + 1, !.j = @ + 1]
  ELSE LET oldIndex == indexOf(d.newLines, d.oldLines[d.i + 1], d.j)
           newIndex == indexOf(d.oldLines, d.newLines[d.j + 1], d.i)
       IN IF /\ oldIndex # -1
             /\ (newIndex = -1 \/ oldIndex - d.j < newIndex - d.i)
          THEN [d EXCEPT !.diffs = Append(@, Added(d.newLines, d.j)),
                         !.j = @ + 1]
          ELSE IF newIndex # -1
          THEN [d EXCEPT !.diffs = Append(@, Removed(d.oldLines, d.i)),
                         !.i = @ + 1]
          ELSE [d EXCEPT
                  !.diffs = Append(@, Modified(d.oldLines, d.i, d.newLines, d.j)),
                  !.i = @ + 1, !.j = @ + 1]

\* the lines texts are made of, and the texts of up to n lines
MergeLines == {<<>>, <<"a">>, <<"b">>}

DiffLines == {<<>>, <<"a">>, <<"b">>, <<"c">>}

TextsOf(lines, n) ==
  {Join(ls, <<NL>>) : ls \in UNION {[1..k -> lines] : k \in 1..n}}

MergeTexts == TextsOf(MergeLines, MaxMergeLines)

DiffTexts == TextsOf(DiffLines, MaxDiffLines)

\* the arguments of a call: three texts to merge, or two to compare
MergeArgs ==
  [localContent : MergeTexts, remoteContent : MergeTexts,
   baseContent : MergeTexts]

DiffArgs == [oldContent : DiffTexts, newContent : DiffTexts]

IsMerge(args) == "baseContent" \in DOMAIN args

ResolverInit ==
  /\ files = <<>>
  /\ metaFile = None
  /\ docs = [d \in DocIds |-> None]
  /\ settings = [refreshToken |-> FALSE, expired |-> FALSE]
  /\ oauth = FALSE
  /\ api = FALSE
  /\ pc = "idle"
  /\ loc = NoLocals
  /\ result = None
  /\ trace = <<>>
  /\ snap = None
  /\ last = None
  /\ edits = 0
  /\ batch = None
  /\ conv = None
  /\ other = None
  /\ plugin = None
  /\ \E args \in MergeArgs \cup DiffArgs :
       resolver = [pc |-> "ready", call |-> "", args |-> args,
                   conflict |-> FALSE, merged |-> NoMerge,
                   oldLines |-> <<>>, newLines |-> <<>>,
                   i |-> 0, j |-> 0, diffs |-> <<>>, iterations |-> 0]

\* detectConflict on the hashes of the three texts
detectConflict_call ==
  /\ resolver.pc = "ready"
  /\ IsMerge(resolver.args)
  /\ resolver' =
       [resolver EXCEPT
          !.pc = "returned",
          !.call = "detectConflict",
          !.conflict =
            detectConflict(calculateContentHash(resolver.args.localContent),
                           calculateContentHash(resolver.args.remoteContent),
                           calculateContentHash(resolver.args.baseContent))]
  /\ UNCHANGED <<EngineVars, batch, conv>>

autoResolve_call ==
  /\ resolver.pc = "ready"
  /\ IsMerge(resolver.args)
  /\ resolver' =
       [resolver EXCEPT
          !.pc = "returned",
          !.call = "autoResolve",
          !.merged = autoResolve(resolver.args.localContent,
                                 resolver.args.remoteContent,
                                 resolver.args.baseContent)]
  /\ UNCHANGED <<EngineVars, batch, conv>>

\* generateDiff up to its loop
generateDiff_split ==
  /\ resolver.pc = "ready"
  /\ ~IsMerge(resolver.args)
  /\ resolver' =
       [resolver EXCEPT
          !.pc = "while",
          !.call = "generateDiff",
          !.oldLines = SplitLines(resolver.args.oldContent, <<>>),
          !.newLines = SplitLines(resolver.args.newContent, <<>>),
          !.i = 0, !.j = 0, !.diffs = <<>>]
  /\ UNCHANGED <<EngineVars, batch, conv>>

generateDiff_while ==
  /\ resolver.pc = "while"
  /\ resolver.i < Len(resolver.oldLines) \/ resolver.j < Len(resolver.newLines)
  /\ resolver' = [DiffStep(resolver) EXCEPT !.iterations = @ + 1]
  /\ UNCHANGED <<EngineVars, batch, conv>>

generateDiff_return ==
  /\ resolver.pc = "while"
  /\ ~(resolver.i < Len(resolver.oldLines)
       \/ resolver.j < Len(resolver.newLines))
  /\ resolver' = [resolver EXCEPT !.pc = "returned"]
  /\ UNCHANGED <<EngineVars, batch, conv>>

ResolverNext ==
  \/ detectConflict_call
  \/ autoResolve_call
  \/ generateDiff_split
  \/ generateDiff_while
  \/ generateDiff_return

ResolverSpec == ResolverInit /\ [][ResolverNext]_vars

\* generateDiff is synchronous: once called, its loop runs on until it returns
ResolverFairSpec ==
  ResolverSpec /\ WF_vars(generateDiff_while) /\ WF_vars(generateDiff_return)

\* a call of the named method has returned
Returned(call) ==
  /\ resolver # None
  /\ resolver.pc = "returned"
  /\ resolver.call = call

(***************************************************************************)
(* C16.  detectConflict(l, r, b) is true exactly when l # b, r # b and     *)
(* l # r: when both sides changed to the same hash there is no conflict.   *)
(***************************************************************************)
C16_DetectConflict ==
  Returned("detectConflict") =>
    LET l == calculateContentHash(resolver.args.localContent)
        r == calculateContentHash(resolver.args.remoteContent)
        b == calculateContentHash(resolver.args.baseContent)
    IN /\ resolver.conflict <=> (l # b /\ r # b /\ l # r)
       /\ (l = r /\ l # b) => ~resolver.conflict

\* both sides changed to the same text and no conflict was reported
C16_Witness ==
  /\ Returned("detectConflict")
  /\ resolver.args.localContent = resolver.args.remoteContent
  /\ resolver.args.localContent # resolver.args.baseContent
  /\ ~resolver.conflict

(***************************************************************************)
(* C17.  autoResolve(base, remote, base) = remote, autoResolve(local,      *)
(* base, base) = local and autoResolve(x, x, base) = x, and in none of     *)
(* these cases is the result null.                                         *)
(***************************************************************************)
C17_AutoResolveOneSided ==
  Returned("autoResolve") =>
    LET localContent == resolver.args.localContent
        remoteContent == resolver.args.remoteContent
        baseContent == resolver.args.baseContent
    IN /\ localContent = baseContent =>
            resolver.merged = Merged(remoteContent)
       /\ remoteContent = baseContent =>
            resolver.merged = Merged(localContent)
       /\ localContent = remoteContent =>
            resolver.merged = Merged(localContent)
       /\ (\/ localContent = baseContent
           \/ remoteContent = baseContent
           \/ localContent = remoteContent) => ~resolver.merged.null

\* only the remote text changed, to fewer lines, and it was returned
C17_Witness ==
  /\ Returned("autoResolve")
  /\ resolver.args.localContent = resolver.args.baseContent
  /\ resolver.args.remoteContent # resolver.args.baseContent
  /\ Len(SplitLines(resolver.args.remoteContent, <<>>))
       < Len(SplitLines(resolver.args.baseContent, <<>>))
  /\ resolver.merged = Merged(resolver.args.remoteContent)

\* the three texts differ from one another
PairwiseDifferent(a, b, c) == a # b /\ a # c /\ b # c

(***************************************************************************)
(* C18.  When local, remote and base differ from one another as texts,     *)
(* autoResolve returns null exactly when at some line index the three      *)
(* lines differ from one another, a missing line reading as the empty      *)
(* line.  Otherwise it returns the text of as many lines as the longest of *)
(* the three, whose line i is the local one when local and remote agree or *)
(* the remote one is the base one, and the remote one when the local one   *)
(* is the base one: a whole merge, never a part of one.                    *)
(***************************************************************************)
C18_LineMerge ==
  (/\ Returned("autoResolve")
   /\ PairwiseDifferent(resolver.args.localContent,
                        resolver.args.remoteContent,
                        resolver.args.baseContent)) =>
    LET localLines == SplitLines(resolver.args.localContent, <<>>)
        remoteLines == SplitLines(resolver.args.remoteContent, <<>>)
        baseLines == SplitLines(resolver.args.baseContent, <<>>)
        n == MaxLen(localLines, remoteLines, baseLines)
        l(i) == LineAt(localLines, i)
        r(i) == LineAt(remoteLines, i)
        b(i) == LineAt(baseLines, i)
    IN /\ resolver.merged.null <=>
            \E i \in 0..(n - 1) : PairwiseDifferent(l(i), r(i), b(i))
       /\ resolver.merged.null => resolver.merged.content = <<>>
       /\ ~resolver.merged.null =>
            resolver.merged.content =
              Join([k \in 1..n |->
                      IF l(k - 1) = r(k - 1) \/ r(k - 1) = b(k - 1)
                      THEN l(k - 1) ELSE r(k - 1)], <<NL>>)

\* a merge that took one line from the local text and one from the remote
C18_Witness ==
  /\ Returned("autoResolve")
  /\ PairwiseDifferent(resolver.args.localContent,
                       resolver.args.remoteContent,
                       resolver.args.baseContent)
  /\ ~resolver.merged.null
  /\ resolver.merged.content # resolver.args.localContent
  /\ resolver.merged.content # resolver.args.remoteContent

\* the lines of the old text of the call, and the new text
OldLines == SplitLines(resolver.args.oldContent, <<>>)

NewContent == resolver.args.newContent

\* the sequences of 1 to MaxDiffLines lines
SomeLines == UNION {[1..k -> DiffLines] : k \in 1..MaxDiffLines}

(***************************************************************************)
(* C19.  When the new text is the old text followed by k >= 1 more lines,  *)
(* generateDiff returns k entries, all of type added: the j-th is located  *)
(* at 'line n+j', n being the number of lines of the old text, and carries *)
(* the j-th appended line as newValue.  Nothing is removed or modified.    *)
(***************************************************************************)
C19_AppendedLinesAreAdded ==
  Returned("generateDiff") =>
    \A extra \in SomeLines :
      NewContent = resolver.args.oldContent \o <<NL>> \o Join(extra, <<NL>>) =>
        resolver.diffs =
          [j \in 1..Len(extra) |->
             [type |-> "added", location |-> <<"line", Len(OldLines) + j>>,
              newValue |-> extra[j]]]

\* two lines were appended to a text and two entries returned
C19_Witness ==
  /\ Returned("generateDiff")
  /\ \E extra \in [1..2 -> DiffLines] :
       NewContent = resolver.args.oldContent \o <<NL>> \o Join(extra, <<NL>>)
  /\ Len(resolver.diffs) = 2

\* no line occurs twice
Distinct(lines) ==
  \A a, b \in 1..Len(lines) : a # b => lines[a] # lines[b]

\* the lines without the k-th
Without(lines, k) == SubSeq(lines, 1, k - 1) \o SubSeq(lines, k + 1, Len(lines))

\* the diff of the old text and the old text without its k-th line is the
\* one removal of that line
DeletionIsRemoved(k) ==
  NewContent = Join(Without(OldLines, k), <<NL>>) =>
    resolver.diffs =
      <<[type |-> "removed", location |-> <<"line", k>>,
         oldValue |-> OldLines[k]]>>

\* the diff of the old text and the old text with a line that occurs nowhere
\* in it in place of the k-th is the one modification of that line
ReplacementIsModified(k) ==
  \A line \in DiffLines :
    (/\ \A a \in 1..Len(OldLines) : OldLines[a] # line
     /\ NewContent = Join([OldLines EXCEPT ![k] = line], <<NL>>)) =>
      resolver.diffs =
        <<[type |-> "modified", location |-> <<"line", k>>,
           oldValue |-> OldLines[k], newValue |-> line]>>

(***************************************************************************)
(* C20.  For an old text whose lines are pairwise distinct: when the new   *)
(* text is the old one with one line deleted, generateDiff returns one     *)
(* entry, of type removed, with the deleted line as oldValue and its line  *)
(* number; when the new text is the old one with one line replaced by a    *)
(* line that occurs nowhere in the old text, generateDiff returns one      *)
(* entry, of type modified, with that line number, the old line and the    *)
(* new line.                                                               *)
(***************************************************************************)
C20_OneLineEdit ==
  (Returned("generateDiff") /\ Distinct(OldLines)) =>
    \A k \in 1..Len(OldLines) :
      DeletionIsRemoved(k) /\ ReplacementIsModified(k)

(***************************************************************************)
(* C20, amended.  The same, the deletion being from an old text of at      *)
(* least two lines: a text whose only line is deleted is the empty text,   *)
(* which has one empty line.                                               *)
(***************************************************************************)
C20_OneLineEdit_Amended ==
  (Returned("generateDiff") /\ Distinct(OldLines)) =>
    \A k \in 1..Len(OldLines) :
      /\ Len(OldLines) >= 2 => DeletionIsRemoved(k)
      /\ ReplacementIsModified(k)

\* the middle line of three was deleted and one removal returned
C20_Witness ==
  /\ Returned("generateDiff")
  /\ Len(OldLines) = 3
  /\ Distinct(OldLines)
  /\ NewContent = Join(Without(OldLines, 2), <<NL>>)
  /\ Len(resolver.diffs) = 1
  /\ resolver.diffs[1].type = "removed"

(***************************************************************************)
(* The parser and the converters called on their own: a vault folder is    *)
(* parsed, pushed into an empty document and read back.                    *)
(***************************************************************************)
\* texts of the notes: no body, a paragraph, a heading of the note's own
NoteTexts == {<<>>, <<"x">>, <<"#", SP, "x">>}

RECURSIVE NestedFolders(_, _, _)
\* the folders called `name` at `path` holding at most a note `a` and a
\* folder `b`, nested to the given depth
NestedFolders(name, path, depth) ==
  LET notes == {{}} \cup {{TFile(path, <<"a">>, <<"m", "d">>, t)} :
                            t \in NoteTexts}
      folders == IF depth = 0 THEN {{}}
                 ELSE {{}} \cup {{f} : f \in NestedFolders(
                                    <<"b">>, path \o <<"/", "b">>, depth - 1)}
  IN {TFolder(name, path, ns \cup fs) : ns \in notes, fs \in folders}

RECURSIVE FolderChain(_, _, _)
\* the folder called `name` at `path` above `depth` folders `b`, one in the
\* other, the innermost holding a note `a`
FolderChain(name, path, depth) ==
  IF depth = 0
  THEN TFolder(name, path, {TFile(path, <<"a">>, <<"m", "d">>, <<"x">>)})
  ELSE TFolder(name, path,
               {FolderChain(<<"b">>, path \o <<"/", "b">>, depth - 1)})

\* texts of notes with bold and italic stretches, one inside the other too
StyledTexts ==
  {<<"*", "*", "y", "*", "*">>,
   <<"x", SP, "*", "y", "*">>,
   <<"*", "*", "x", SP, "*", "y", "*", SP, "x", "*", "*">>,
   <<"#", SP, "x", NL, NL, "*", "y", "*", SP, "x">>}

\* the synced folder holding a styled note `a` and at most a styled note `b`
StyledFolders ==
  {TFolder(FolderName, FolderPath,
           {TFile(FolderPath, <<"a">>, <<"m", "d">>, t)} \cup more) :
     t \in StyledTexts,
     more \in {{}} \cup {{TFile(FolderPath, <<"b">>, <<"m", "d">>, u)} :
                            u \in StyledTexts}}

FolderArgs ==
  {[kind |-> "folder", folder |-> f] :
     f \in NestedFolders(FolderName, FolderPath, MaxDepth)
            \cup {FolderChain(FolderName, FolderPath, MaxDepth + 1)}
            \cup StyledFolders}

\* texts of notes that hold the characters the serialization is made of
SerialTexts ==
  {<<>>, <<"x">>, <<"y">>,
   <<"x", ",", "f", "i", "l", "e", ":", "b", ":", "2", ":", "y">>,
   <<"[", "x", "]">>}

\* the synced folder holding notes `a` and `b`, either or both
SerialFolders ==
  {TFolder(FolderName, FolderPath,
           {TFile(FolderPath, n, <<"m", "d">>, t[n]) : n \in DOMAIN t}) :
     t \in UNION {[S -> SerialTexts] : S \in SUBSET {<<"a">>, <<"b">>}}}

FolderPairArgs ==
  {[kind |-> "folders", first |-> f, second |-> g] :
     f \in SerialFolders, g \in SerialFolders}

\* texts of notes with and without a front-matter block
FrontMatterBlock == <<"-", "-", "-", NL, "t", NL, "-", "-", "-", NL>>

RawTexts ==
  LET plain == {<<>>, <<"x">>, <<SP, "x">>, <<"x", NL>>, <<NL, "x">>,
                <<"x", NL, NL, "y">>, <<"-", "-", "-", NL, "t">>}
  IN plain \cup {FrontMatterBlock \o t : t \in plain}

TextArgs == {[kind |-> "text", content |-> t] : t \in RawTexts}

\* a stretch of text in one style
StyledRuns == [text : {<<"x">>, <<"-", "-", "-">>},
               bold : BOOLEAN, italic : BOOLEAN]

\* the cells of a paragraph made of the runs; its newline has the style of
\* its last run
RunCells(runs, namedStyleType) ==
  LET cellsOf(r) == [k \in 1..Len(r.text) |->
                       Cell(r.text[k], namedStyleType, FALSE, r.bold, r.italic)]
      lastRun == IF runs = <<>> THEN [bold |-> FALSE, italic |-> FALSE]
                 ELSE runs[Len(runs)]
  IN Concat([k \in 1..Len(runs) |-> cellsOf(runs[k])])
     \o <<Cell(NL, namedStyleType, FALSE, lastRun.bold, lastRun.italic)>>

\* documents of one paragraph of styled runs, and the document without blocks
StyledDocs ==
  {[documentId |-> 1, revisionId |-> 1, body |-> [content |-> <<>>]]}
  \cup {GoogleDoc(1, [cells |-> RunCells(runs, style), rev |-> 1]) :
          runs \in UNION {[1..n -> StyledRuns] : n \in 0..MaxRuns},
          style \in {NORMAL_TEXT, HeadingStyle(1), HeadingStyle(3)}}

\* the paragraphs of the documents of several paragraphs: two headings, one
\* with a space before its text, a plain and a bold paragraph, an empty
\* paragraph and one of a space
DocParagraphs ==
  {RunCells(<<[text |-> <<"a">>, bold |-> FALSE, italic |-> FALSE]>>,
            HeadingStyle(1)),
   RunCells(<<[text |-> <<SP, "b">>, bold |-> FALSE, italic |-> FALSE]>>,
            HeadingStyle(2)),
   RunCells(<<[text |-> <<"x">>, bold |-> FALSE, italic |-> FALSE]>>,
            NORMAL_TEXT),
   RunCells(<<[text |-> <<"y">>, bold |-> TRUE, italic |-> FALSE]>>,
            NORMAL_TEXT),
   RunCells(<<>>, NORMAL_TEXT),
   RunCells(<<[text |-> <<SP>>, bold |-> FALSE, italic |-> FALSE]>>,
            NORMAL_TEXT)}

\* documents of up to MaxParagraphs of these paragraphs
ParagraphDocs ==
  {GoogleDoc(1, [cells |-> Concat(ps), rev |-> 1]) :
     ps \in UNION {[1..n -> DocParagraphs] : n \in 1..MaxParagraphs}}

DocArgs == {[kind |-> "doc", doc |-> d] : d \in StyledDocs \cup ParagraphDocs}

\* what a sub-folder `b` of the synced folder may hold: a note, the metadata
\* file of its own, both or nothing
SubFolders ==
  {TFolder(<<"b">>, FolderPath \o <<"/", "b">>, held) :
     held \in SUBSET {TFile(FolderPath \o <<"/", "b">>, <<"a">>, <<"m", "d">>,
                            <<"x">>),
                      MetadataTFile(FolderPath \o <<"/", "b">>, <<"{", "}">>)}}

\* the synced folder holding any of: notes `a`, `a-b`, a text file that is no
\* markdown, its metadata file, an empty folder `a` and a folder `b`
ListedFolders ==
  {TFolder(FolderName, FolderPath, entries \cup folders) :
     entries \in SUBSET {TFile(FolderPath, <<"a">>, <<"m", "d">>, <<"x">>),
                         TFile(FolderPath, <<"a", "-", "b">>, <<"m", "d">>,
                               <<"y">>),
                         TFile(FolderPath, <<"b">>, <<"t", "x", "t">>, <<"x">>),
                         MetadataTFile(FolderPath, <<"{", "}">>),
                         TFolder(<<"a">>, FolderPath \o <<"/", "a">>, {})},
     folders \in {{}} \cup {{f} : f \in SubFolders}}

ListingArgs == {[kind |-> "listing", folder |-> f] : f \in ListedFolders}

\* the synced folder before a pull: with or without a note `a`, a text
\* file, and a folder `b` that is empty or holds a note `a`
PullFolders ==
  {TFolder(FolderName, FolderPath, entries \cup folders) :
     entries \in SUBSET {TFile(FolderPath, <<"a">>, <<"m", "d">>, <<"x">>),
                         TFile(FolderPath, <<"b">>, <<"t", "x", "t">>, <<"x">>)},
     folders \in {{}} \cup
       {{TFolder(<<"b">>, FolderPath \o <<"/", "b">>, held)} :
          held \in SUBSET {TFile(FolderPath \o <<"/", "b">>, <<"a">>,
                                 <<"m", "d">>, <<"x">>)}}}

\* the paragraphs of the documents that are pulled: headings `a`, `b/a` and
\* `c/a` of level 2, `a` of level 1 and of level 3, and a paragraph
PulledParagraphs ==
  LET plain(text) == <<[text |-> text, bold |-> FALSE, italic |-> FALSE]>>
  IN {RunCells(plain(<<"a">>), HeadingStyle(2)),
      RunCells(plain(<<"b", "/", "a">>), HeadingStyle(2)),
      RunCells(plain(<<"c", "/", "a">>), HeadingStyle(2)),
      RunCells(plain(<<"a">>), HeadingStyle(1)),
      RunCells(plain(<<"a">>), HeadingStyle(3)),
      RunCells(plain(<<"y">>), NORMAL_TEXT)}

PullArgs ==
  {[kind |-> "pull", folder |-> f,
    doc |-> GoogleDoc(1, [cells |-> Concat(ps), rev |-> 1])] :
     f \in PullFolders,
     ps \in UNION {[1..n -> PulledParagraphs] : n \in 1..MaxPulled}}

ConverterArgs ==
  FolderArgs \cup FolderPairArgs \cup TextArgs \cup DocArgs \cup ListingArgs
  \cup PullArgs

ConverterInit ==
  /\ files = <<>>
  /\ metaFile = None
  /\ docs = [d \in DocIds |-> None]
  /\ settings = [refreshToken |-> FALSE, expired |-> FALSE]
  /\ oauth = FALSE
  /\ api = FALSE
  /\ pc = "idle"
  /\ loc = NoLocals
  /\ result = None
  /\ trace = <<>>
  /\ snap = None
  /\ last = None
  /\ edits = 0
  /\ batch = None
  /\ resolver = None
  /\ \E args \in ConverterArgs :
       conv = [pc |-> "ready", call |-> "", args |-> args, out |-> None]
  /\ other = None
  /\ plugin = None

\* a converter call returns
ConvReturns(call, out) ==
  /\ conv' = [conv EXCEPT !.pc = "returned", !.call = call, !.out = out]
  /\ UNCHANGED <<EngineVars, batch, resolver>>

\* parseFolder, convertToGoogleDocs into a new document, then documents.get
\* and extractStructure
convertToGoogleDocs_call ==
  /\ conv.pc = "ready"
  /\ conv.args.kind = "folder"
  /\ LET rootNode == parseFolder(conv.args.folder, 1)
         requests == ConvertRequests(rootNode)
         cells == IF requests = <<>> THEN EmptyBody
                  ELSE ApplyRequests(EmptyBody, requests)
         doc == GoogleDoc(1, [cells |-> cells, rev |-> 1])
     IN ConvReturns("convertToGoogleDocs",
          [rootNode |-> rootNode, requests |-> requests, cells |-> cells,
           structure |-> IF cells = <<>> THEN <<>> ELSE extractStructure(doc)])

\* calculateFolderHash on two folders
calculateFolderHash_call ==
  /\ conv.pc = "ready"
  /\ conv.args.kind = "folders"
  /\ LET nodes == <<parseFolder(conv.args.first, 1),
                    parseFolder(conv.args.second, 1)>>
     IN ConvReturns("calculateFolderHash",
          [nodes |-> nodes,
           contentStrings |-> <<serializeFolderNode(nodes[1]),
                                serializeFolderNode(nodes[2])>>,
           hashes |-> <<calculateFolderHash(conv.args.first),
                        calculateFolderHash(conv.args.second)>>])

stripFrontMatter_call ==
  /\ conv.pc = "ready"
  /\ conv.args.kind = "text"
  /\ ConvReturns("stripFrontMatter", stripFrontMatter(conv.args.content))

convertToMarkdown_call ==
  /\ conv.pc = "ready"
  /\ conv.args.kind = "doc"
  /\ ConvReturns("convertToMarkdown", convertToMarkdown(conv.args.doc))

extractStructure_call ==
  /\ conv.pc = "ready"
  /\ conv.args.kind = "doc"
  /\ ConvReturns("extractStructure", extractStructure(conv.args.doc))

parseFolder_call ==
  /\ conv.pc = "ready"
  /\ conv.args.kind \in {"folder", "listing"}
  /\ ConvReturns("parseFolder", parseFolder(conv.args.folder, 1))

\* the folder with the metadata file of the folder at `path`, the synced
\* folder or one below it, written with the text or deleted
RECURSIVE WithMetadata(_, _, _, _)
WithMetadata(folder, path, write, data) ==
  LET below == {IF e.kind = "folder" THEN WithMetadata(e, path, write, data)
                ELSE e : e \in folder.children}
  IN IF folder.path # path THEN [folder EXCEPT !.children = below]
     ELSE [folder EXCEPT !.children =
             {e \in below : e.name # METADATA_FILENAME}
             \cup (IF write THEN {MetadataTFile(path, data)} ELSE {})]

\* what a pass computes from the folder: its hash and the batch it pushes
HashAndBatch(folder) ==
  [hash |-> calculateFolderHash(folder),
   requests |-> ConvertRequests(parseFolder(folder, 1))]

\* calculateFolderHash and convertToGoogleDocs before and after a metadata
\* file is created, overwritten or deleted in the folder or below it
calculateFolderHash_metadataChange ==
  /\ conv.pc = "ready"
  /\ conv.args.kind = "listing"
  /\ \E path \in {FolderPath, FolderPath \o <<"/", "b">>},
        write \in BOOLEAN, data \in {<<"{", "}">>, <<"x">>} :
       LET changed == WithMetadata(conv.args.folder, path, write, data)
       IN ConvReturns("metadataChange",
            [changed |-> changed,
             before |-> HashAndBatch(conv.args.folder),
             after |-> HashAndBatch(changed)])

RECURSIVE Entries(_)
\* the folder and everything in it and below it
Entries(folder) ==
  {folder} \cup UNION {IF e.kind = "folder" THEN Entries(e) ELSE {e} :
                         e \in folder.children}

\* vault.getAbstractFileByPath: the entries at the path, none or one
getAbstractFileByPath(root, path) == {e \in Entries(root) : e.path = path}

RECURSIVE ReplaceEntry(_, _, _)
\* the folder with the entry at the path replaced
ReplaceEntry(folder, path, entry) ==
  [folder EXCEPT !.children =
     {IF e.path = path THEN entry
      ELSE IF e.kind = "folder" THEN ReplaceEntry(e, path, entry)
      ELSE e : e \in folder.children}]

\* position of the last '/' of the path
LastSlash(path) ==
  CHOOSE k \in 1..Len(path) :
    path[k] = "/" /\ \A j \in (k + 1)..Len(path) : path[j] # "/"

\* the vault after vault.modify(file, data)
VaultModify(root, file, data) ==
  ReplaceEntry(root, file.path, [file EXCEPT !.data = data])

\* the vault after vault.create(`${parent}/${basename}.md`, data): the file
\* is added to the folder the path names
VaultCreate(root, filePath, data) ==
  LET parentPath == SubSeq(filePath, 1, LastSlash(filePath) - 1)
      basename == SubSeq(filePath, LastSlash(filePath) + 1, Len(filePath) - 3)
      parent == CHOOSE e \in getAbstractFileByPath(root, parentPath) : TRUE
      created == TFile(parentPath, basename, <<"m", "d">>, data)
      grown == [parent EXCEPT !.children = @ \cup {created}]
  IN IF parentPath = root.path THEN grown
     ELSE ReplaceEntry(root, parentPath, grown)

RECURSIVE UpdateLocalFiles(_, _, _)
\* the loop of updateLocalFiles over structure[k..] on the vault folder;
\* vault.create throws when the folder of the path does not exist
UpdateLocalFiles(root, structure, k) ==
  IF k > Len(structure) THEN [folder |-> root, threw |-> FALSE]
  ELSE
    LET section == structure[k]
        filePath == root.path \o <<"/">> \o section.title
                    \o <<".", "m", "d">>
        file == getAbstractFileByPath(root, filePath)
    IN IF ~(section.level >= 2 /\ section.content # <<>>)
       THEN UpdateLocalFiles(root, structure, k + 1)
       ELSE IF \E f \in file : f.kind = "file"
       THEN UpdateLocalFiles(
              VaultModify(root, CHOOSE f \in file : TRUE, section.content),
              structure, k + 1)
       ELSE IF getAbstractFileByPath(
                 root, SubSeq(filePath, 1, LastSlash(filePath) - 1)) = {}
       THEN [folder |-> root, threw |-> TRUE]
       ELSE UpdateLocalFiles(VaultCreate(root, filePath, section.content),
                             structure, k + 1)

\* pullFromRemote up to the end of updateLocalFiles, on a vault folder with
\* folders below it
updateLocalFiles_call ==
  /\ conv.pc = "ready"
  /\ conv.args.kind = "pull"
  /\ LET structure == extractStructure(conv.args.doc)
         updated == UpdateLocalFiles(conv.args.folder, structure, 1)
     IN ConvReturns("updateLocalFiles",
          [structure |-> structure, folder |-> updated.folder,
           threw |-> updated.threw])

ConverterNext ==
  \/ parseFolder_call
  \/ updateLocalFiles_call
  \/ calculateFolderHash_metadataChange
  \/ convertToGoogleDocs_call
  \/ convertToMarkdown_call
  \/ extractStructure_call
  \/ stripFrontMatter_call
  \/ calculateFolderHash_call

ConverterSpec == ConverterInit /\ [][ConverterNext]_vars

\* a call of the named parser or converter method has returned
ConvReturned(call) ==
  /\ conv # None
  /\ conv.pc = "returned"
  /\ conv.call = call

RECURSIVE NodesBelow(_)
\* the nodes of a tree below its root, a folder before what it holds
NodesBelow(node) ==
  IF node.type = "file" \/ node.children = <<>> THEN <<>>
  ELSE LET child == node.children[1]
           rest == [node EXCEPT !.children = Tail(node.children)]
       IN <<child>> \o NodesBelow(child) \o NodesBelow(rest)

\* the document has a section for the node
HasSection(structure, node) ==
  \E k \in 1..Len(structure) :
    /\ structure[k].title = node.name
    /\ structure[k].level = Min(node.level, 6)

\* the node has no text to push: a note with an empty body
IsEmptyNote(node) == node.type = "file" /\ node.content = <<>>

C23_SerializationIsInjective ==
  ConvReturned("calculateFolderHash") =>
    (conv.out.nodes[1] # conv.out.nodes[2] =>
       /\ conv.out.contentStrings[1] # conv.out.contentStrings[2]
       /\ conv.out.hashes[1] # conv.out.hashes[2])

\* the first line is the delimiter and a later line is the delimiter again
BeginsWithBlock(content) ==
  LET lines == SplitLines(content, <<>>)
  IN /\ lines[1] = FrontMatterOpen
     /\ \E k \in 2..Len(lines) : lines[k] = FrontMatterOpen

\* the text after the line that closes the block
AfterBlock(content) ==
  LET lines == SplitLines(content, <<>>)
      close == CHOOSE k \in 2..Len(lines) :
                 /\ lines[k] = FrontMatterOpen
                 /\ \A j \in 2..(k - 1) : lines[j] # FrontMatterOpen
  IN Join(SubSeq(lines, close + 1, Len(lines)), <<NL>>)

RECURSIVE TrimBlankLines(_)
\* the text without the newlines around it
TrimBlankLines(s) ==
  IF s # <<>> /\ Head(s) = NL THEN TrimBlankLines(Tail(s))
  ELSE StripTrailingNewlines(s)

(***************************************************************************)
(* C24.  stripFrontMatter returns its input as it is, character for        *)
(* character, when the input does not begin with a front-matter block,     *)
(* leading and trailing whitespace and blank lines included; when it does, *)
(* it returns what follows the block without the blank lines around it.    *)
(***************************************************************************)
C24_StripFrontMatter ==
  ConvReturned("stripFrontMatter") =>
    IF BeginsWithBlock(conv.args.content)
    THEN conv.out = TrimBlankLines(AfterBlock(conv.args.content))
    ELSE conv.out = conv.args.content

(***************************************************************************)
(* MetadataManager called on its own, on a folder that starts without a    *)
(* metadata file, with one, or with a damaged one.                         *)
(***************************************************************************)
\* the metadata objects callers write
MetadataObjects ==
  [googleDocId : DocIds, folderPath : {FolderPath},
   contentHash : {hashString(<<"x">>), hashString(<<"y">>)},
   remoteContentHash : {None, hashString(<<"x">>)},
   revisionId : {1, 2}]
  \cup [googleDocId : DocIds, folderPath : {FolderPath},
        contentHash : {hashString(<<"x">>), hashString(<<"y">>)}]

MetadataInit ==
  /\ files = <<>>
  /\ metaFile \in {None, Malformed}
                    \cup {writeMetadata(m) : m \in MetadataObjects}
  /\ docs = [d \in DocIds |-> None]
  /\ settings = [refreshToken |-> FALSE, expired |-> FALSE]
  /\ oauth = FALSE
  /\ api = FALSE
  /\ pc = "idle"
  /\ loc = NoLocals
  /\ result = None
  /\ trace = <<>>
  /\ snap = None
  /\ last = None
  /\ edits = 0
  /\ batch = None
  /\ resolver = None
  /\ conv = [pc |-> "ready", call |-> "", args |-> None, out |-> None]
  /\ other = None
  /\ plugin = None

\* what a call leaves alone
MetadataFrame ==
  UNCHANGED <<files, docs, settings, oauth, api, pc, loc, result, trace, snap,
              last, edits, batch, resolver, other, plugin>>

writeMetadata_call ==
  /\ conv.pc # "busy"
  /\ \E metadata \in MetadataObjects :
       /\ metaFile' = writeMetadata(metadata)
       /\ conv' = [pc |-> "returned", call |-> "writeMetadata",
                   args |-> metadata, out |-> [before |-> metaFile]]
  /\ MetadataFrame

\* vault.delete of the file when there is one
deleteMetadata_call ==
  /\ conv.pc # "busy"
  /\ metaFile' = None
  /\ conv' = [pc |-> "returned", call |-> "deleteMetadata", args |-> None,
              out |-> [before |-> metaFile]]
  /\ MetadataFrame

MetadataNext ==
  \/ writeMetadata_call
  \/ deleteMetadata_call

MetadataSpec == MetadataInit /\ [][MetadataNext]_vars

\* the two objects have the same defined properties
SameObject(a, b) ==
  LET get(o, k) == IF k \in DOMAIN o THEN o[k] ELSE None
  IN /\ \A k \in (DOMAIN a \cup DOMAIN b) \ {"remoteContentHash"} :
          k \in DOMAIN a /\ k \in DOMAIN b /\ a[k] = b[k]
     /\ get(a, "remoteContentHash") = get(b, "remoteContentHash")

PushedMarkdown(rootNode) ==
  convertToMarkdown(
    GoogleDoc(1, [cells |-> ApplyRequests(EmptyBody, ConvertRequests(rootNode)),
                  rev |-> 1]))

\* the three-way line merge of the local and the remote version of the
\* running pass over the remote version of the last sync, the text whose
\* hash the metadata holds
PassMerge ==
  autoResolve(PushedMarkdown(parseFolder(FolderOf(snap.files, snap.metaFile), 1)),
              convertToMarkdown(SnapDoc),
              SnapMetadata.remoteContentHash.sha256)

(***************************************************************************)
(* C26.  A pass that finds both sides changed and whose three-way line     *)
(* merge of the two versions succeeds merges them and ends with success;   *)
(* it reports a conflict only when the merge is not possible.              *)
(***************************************************************************)
C26_AutoMergeWhenPossible ==
  (/\ pc = "done"
   /\ SnapLinked
   /\ loc.remoteDoc # None
   /\ SnapLocalChanged
   /\ SnapRemoteChanged
   /\ result.error = <<>>) =>
    /\ ~PassMerge.null => result.success /\ result.conflicts = <<>>
    /\ result.conflicts # <<>> => PassMerge.null

\* a text run by its flags: ***text***, **text**, *text* or text
RunByFlags(textRun) ==
  LET marks == CASE textRun.textStyle.bold /\ textRun.textStyle.italic ->
                      <<"*", "*", "*">>
                 [] textRun.textStyle.bold -> <<"*", "*">>
                 [] textRun.textStyle.italic -> <<"*">>
                 [] OTHER -> <<>>
  IN marks \o textRun.content \o marks

\* the runs of a paragraph by their flags, one after the other, without the
\* newlines at the end
ParagraphText(paragraph) ==
  StripTrailingNewlines(
    Concat([k \in 1..Len(paragraph.elements) |->
              RunByFlags(paragraph.elements[k].textRun)]))

\* n '#', a space and the text for a heading paragraph, the text otherwise
ParagraphByStyle(paragraph) ==
  LET styleType == paragraph.paragraphStyle.namedStyleType
  IN IF \E n \in 1..6 : HeadingStyle(n) = styleType
     THEN [k \in 1..(CHOOSE n \in 1..6 : HeadingStyle(n) = styleType) |-> "#"]
          \o <<SP>> \o ParagraphText(paragraph)
     ELSE ParagraphText(paragraph)

\* the markdown of a document of the one line: lines without text are left
\* out
OneLine(line) == IF Trim(line) = <<>> THEN <<>> ELSE line

RECURSIVE EmittedDepths(_, _)
\* how deep below the node at depth `depth` each folder and each note with
\* a body sits, the synced folder being at depth 0, in the order of the tree
EmittedDepths(node, depth) ==
  IF node.type = "file" THEN <<>>
  ELSE Concat([k \in 1..Len(node.children) |->
                 (IF IsEmptyNote(node.children[k]) THEN <<>>
                  ELSE <<depth + 1>>)
                 \o EmittedDepths(node.children[k], depth + 1)])

RECURSIVE LevelsAreDepths(_, _)
\* the node at depth `depth` has level depth + 1, and so on below it
LevelsAreDepths(node, depth) ==
  /\ node.level = depth + 1
  /\ node.type = "folder" =>
       \A k \in 1..Len(node.children) :
         LevelsAreDepths(node.children[k], depth + 1)

\* the heading levels of the paragraphs of the document named after a
\* folder or a note, in the order of the document
NameHeadings(cells) ==
  LET content == BodyContent(cells, 1)
      named == SelectSeq(content, LAMBDA e :
                 /\ getParagraphText(e.paragraph) \in {<<"a">>, <<"b">>}
                 /\ e.paragraph.paragraphStyle.namedStyleType # NORMAL_TEXT)
  IN [k \in 1..Len(named) |-> named[k].paragraph.paragraphStyle.namedStyleType]

(***************************************************************************)
(* C28.  The heading the converter emits for a folder or a note has level  *)
(* min(node.level, 6), the synced folder being level 1 and each nesting    *)
(* step adding 1: Heading 2 for what the synced folder holds, Heading 3    *)
(* below that, Heading 6 for every node at depth 6 or deeper.              *)
(***************************************************************************)
C28_HeadingLevelIsCappedDepth ==
  ConvReturned("convertToGoogleDocs") =>
    LET depths == EmittedDepths(conv.out.rootNode, 0)
    IN /\ LevelsAreDepths(conv.out.rootNode, 0)
       /\ NameHeadings(conv.out.cells) =
            [k \in 1..Len(depths) |->
               IF depths[k] >= 5 THEN "HEADING_6"
               ELSE HeadingStyle(depths[k] + 1)]

\* a tree with folders from level 2 to level 7 and a note at level 8 has
\* been pushed
C28_Witness ==
  /\ ConvReturned("convertToGoogleDocs")
  /\ EmittedDepths(conv.out.rootNode, 0) = <<1, 2, 3, 4, 5, 6, 7>>
  /\ NameHeadings(conv.out.cells) =
       <<"HEADING_2", "HEADING_3", "HEADING_4", "HEADING_5", "HEADING_6",
         "HEADING_6", "HEADING_6">>

\* how far after the cursor (0-based) the line occurs in the lines: the set
\* of the distances, empty when it does not occur
Distances(lines, cursor, line) ==
  {n \in 1..Len(lines) : cursor + n < Len(lines) /\ lines[cursor + n + 1] = line}

Least(S) == CHOOSE n \in S : \A m \in S : n <= m

\* generateDiff is at two lines that differ
AtMismatch(d) ==
  /\ d.pc = "while"
  /\ d.i < Len(d.oldLines)
  /\ d.j < Len(d.newLines)
  /\ d.oldLines[d.i + 1] # d.newLines[d.j + 1]

\* the step from d to e emitted one entry of the type and moved the cursors
\* by di and dj
Emitted(d, e, type, di, dj) ==
  /\ Len(e.diffs) = Len(d.diffs) + 1
  /\ SubSeq(e.diffs, 1, Len(d.diffs)) = d.diffs
  /\ e.diffs[Len(e.diffs)].type = type
  /\ e.i = d.i + di
  /\ e.j = d.j + dj

\* the step from d to e follows the lookahead: dIns is the distance of the
\* old line in the new lines, dDel that of the new line in the old lines
FollowsLookahead(d, e) ==
  LET ins == Distances(d.newLines, d.j, d.oldLines[d.i + 1])
      del == Distances(d.oldLines, d.i, d.newLines[d.j + 1])
  IN CASE ins # {} /\ del # {} ->
            IF Least(ins) < Least(del) THEN Emitted(d, e, "added", 0, 1)
            ELSE Emitted(d, e, "removed", 1, 0)
       [] ins # {} /\ del = {} -> Emitted(d, e, "added", 0, 1)
       [] ins = {} /\ del # {} -> Emitted(d, e, "removed", 1, 0)
       [] OTHER -> Emitted(d, e, "modified", 1, 1)

(***************************************************************************)
(* C29.  At two lines that differ, generateDiff looks ahead: when the old  *)
(* line occurs later in the new lines (dIns after the new cursor) and the  *)
(* new line later in the old lines (dDel after the old cursor), the step   *)
(* emits an added entry and moves the new cursor only iff dIns < dDel, and *)
(* otherwise a removed entry and moves the old cursor only; when only one  *)
(* of the two occurs it decides; when neither does, a modified entry is    *)
(* emitted and both cursors move.                                          *)
(***************************************************************************)
C29_LookaheadTieBreak ==
  [][AtMismatch(resolver) => FollowsLookahead(resolver, resolver')]_vars

\* old a, c, b against new b, a: equal distances would remove, but the old
\* line is one line away and the new line two, so line 1 was added
C29_Witness ==
  /\ resolver # None
  /\ resolver.pc = "while"
  /\ resolver.oldLines = <<<<"a">>, <<"c">>, <<"b">>>>
  /\ resolver.newLines = <<<<"b">>, <<"a">>>>
  /\ resolver.i = 0
  /\ resolver.j = 1
  /\ resolver.diffs = <<Added(resolver.newLines, 0)>>

\* the block is a heading paragraph
IsHeadingBlock(e) ==
  \E n \in 1..6 : e.paragraph.paragraphStyle.namedStyleType = HeadingStyle(n)

\* the positions of the heading paragraphs among the blocks, in order
HeadingPositions(content) ==
  SelectSeq([k \in 1..Len(content) |-> k],
            LAMBDA k : IsHeadingBlock(content[k]))

\* the markdown of the paragraphs with text between two positions, a blank
\* line between each two
TextBetween(content, from, to) ==
  LET between == [k \in 1..(to - from - 1) |-> content[from + k]]
      withText == SelectSeq(between, LAMBDA e :
                    Trim(getParagraphText(e.paragraph)) # <<>>)
  IN Join([k \in 1..Len(withText) |-> convertParagraph(withText[k].paragraph)],
          <<NL, NL>>)

(***************************************************************************)
(* C30.  extractStructure returns one section per heading paragraph, in    *)
(* the order of the document, its level that of the heading style and its  *)
(* title the trimmed text of the heading; the content of a section is the  *)
(* paragraphs with text that follow its heading up to the next heading,    *)
(* separated by blank lines; what comes before the first heading is in no  *)
(* section.                                                                *)
(***************************************************************************)
C30_SectionPerHeading ==
  ConvReturned("extractStructure") =>
    LET content == conv.args.doc.body.content
        at == HeadingPositions(content)
    IN /\ Len(conv.out) = Len(at)
       /\ \A m \in 1..Len(at) :
            LET heading == content[at[m]].paragraph
                next == IF m < Len(at) THEN at[m + 1] ELSE Len(content) + 1
            IN /\ HeadingStyle(conv.out[m].level) =
                    heading.paragraphStyle.namedStyleType
               /\ conv.out[m].title = Trim(getParagraphText(heading))
               /\ conv.out[m].content = TextBetween(content, at[m], next)

\* a paragraph, a heading with a space before its text and two paragraphs
\* gave one section of the two paragraphs
C30_Witness ==
  /\ ConvReturned("extractStructure")
  /\ Len(conv.args.doc.body.content) = 4
  /\ HeadingPositions(conv.args.doc.body.content) = <<2>>
  /\ getParagraphText(conv.args.doc.body.content[1].paragraph) = <<"x">>
  /\ conv.out = <<[level |-> 2, title |-> <<"b">>,
                   content |-> <<"x", NL, NL, "*", "*", "y", NL, "*", "*">>]>>

\* the names are in lexicographic order, the first before the second
NameBefore(a, b) == localeCompare(a, b) < 0

\* the name the node is sorted by: its own, or that of its file in the vault
SortName(node, ofFile) ==
  IF ofFile /\ node.type = "file" THEN node.name \o <<".", "m", "d">>
  ELSE node.name

\* folders before files, each group in the order of the names
ChildrenInOrder(children, ofFile) ==
  \A i, j \in 1..Len(children) :
    i < j =>
      /\ children[i].type = "folder" \/ children[j].type = "file"
      /\ children[i].type = children[j].type =>
           NameBefore(SortName(children[i], ofFile),
                      SortName(children[j], ofFile))

RECURSIVE IsTreeOf(_, _, _)
\* the node is a well-formed tree of the vault folder or file
IsTreeOf(entry, node, ofFile) ==
  IF node.type = "folder"
  THEN /\ entry.kind = "folder"
       /\ DOMAIN node = {"name", "path", "type", "level", "children"}
       /\ ChildrenInOrder(node.children, ofFile)
       /\ \A k \in 1..Len(node.children) :
            /\ node.children[k].level = node.level + 1
            /\ \E e \in entry.children :
                 /\ e.path = node.children[k].path
                 /\ e.kind = "folder" \/ e.extension = <<"m", "d">>
                 /\ IsTreeOf(e, node.children[k], ofFile)
  ELSE /\ entry.kind = "file"
       /\ DOMAIN node = {"name", "path", "type", "level", "content"}

(***************************************************************************)
(* C31.  In the tree parseFolder builds, the children of a folder node are *)
(* its folders, then its files, each group in lexicographic order of name; *)
(* a child's level is its parent's plus 1, the root being at level 1; only *)
(* sub-folders and markdown files appear; a folder node has children and   *)
(* no content, a file node content and no children.                        *)
(***************************************************************************)
C31_TreeIsWellFormed ==
  ConvReturned("parseFolder") =>
    /\ conv.out.level = 1
    /\ IsTreeOf(conv.args.folder, conv.out, FALSE)

(***************************************************************************)
(* C31, amended.  The same, the order of each group being that of the      *)
(* names the entries have in the vault, which for a file is the name of    *)
(* the node followed by '.md': note `a-b` comes before note `a`.           *)
(***************************************************************************)
C31_TreeIsWellFormed_Amended ==
  ConvReturned("parseFolder") =>
    /\ conv.out.level = 1
    /\ IsTreeOf(conv.args.folder, conv.out, TRUE)

\* a folder with two folders, two notes, a text file and its metadata file
\* has been parsed: the folders come first and note `a-b` before note `a`
C31_Witness ==
  /\ ConvReturned("parseFolder")
  /\ Cardinality(conv.args.folder.children) = 6
  /\ Len(conv.out.children) = 4
  /\ [k \in 1..4 |-> conv.out.children[k].type] =
        <<"folder", "folder", "file", "file">>
  /\ [k \in 1..4 |-> conv.out.children[k].name] =
        <<<<"a">>, <<"b">>, <<"a", "-", "b">>, <<"a">>>>

(***************************************************************************)
(* C32.  The metadata file is invisible to change detection and to the     *)
(* document: creating, overwriting or deleting .sync-metadata.json in the  *)
(* synced folder or in a folder below it changes neither the value of      *)
(* calculateFolderHash nor the requests of the push.                       *)
(***************************************************************************)
C32_MetadataFileIsInvisible ==
  ConvReturned("metadataChange") =>
    /\ conv.out.after.hash = conv.out.before.hash
    /\ conv.out.after.requests = conv.out.before.requests

\* the metadata file of the folder below the synced one, which holds a
\* note, was created, and the push has requests
C32_Witness ==
  /\ ConvReturned("metadataChange")
  /\ conv.out.changed # conv.args.folder
  /\ \E f \in conv.out.changed.children :
       /\ f.kind = "folder"
       /\ Cardinality(f.children) = 2
       /\ \E e \in f.children : e.name = METADATA_FILENAME
  /\ \A f \in conv.args.folder.children :
       f.kind = "folder" => \A e \in f.children : e.name # METADATA_FILENAME
  /\ conv.out.after.requests # <<>>

\* the names of the files a pull of the sections may write
SectionFileNames(structure) ==
  {structure[k].title \o <<".", "m", "d">> :
     k \in {j \in 1..Len(structure) : Materialized(structure[j])}}

(***************************************************************************)
(* C33.  A pull only creates or overwrites files named '<section           *)
(* title>.md' directly under the synced folder: it deletes no local file,  *)
(* writes nothing inside a sub-folder, creates no sub-folder, and leaves   *)
(* every file whose name is that of no materialized section as it was.     *)
(***************************************************************************)
C33_PullWritesFlatFilesOnly ==
  ConvReturned("updateLocalFiles") =>
    LET before == conv.args.folder.children
        after == conv.out.folder.children
        written == SectionFileNames(conv.out.structure)
    IN /\ \A e \in before : \E f \in after : f.path = e.path
       /\ \A f \in after :
            f \in before \/ (f.kind = "file" /\ f.name \in written)
       /\ \A e \in before :
            e \in after \/ (e.kind = "file" /\ e.name \in written)

(***************************************************************************)
(* C34.  Passes reach a fixpoint: the pass that follows a pass that ended  *)
(* in success on the New, the Push or the Pull branch, with no edit of the *)
(* files, the document or the metadata in between, finds the folder linked *)
(* and neither side changed and, when its calls succeed, returns 'Already  *)
(* up to date'.                                                            *)
(***************************************************************************)
C34_PassesReachFixpoint ==
  (/\ pc # "idle"
   /\ last # None
   /\ last.success
   /\ last.branch \in {"New", "Push", "Pull"}) =>
    /\ SnapLinked
    /\ ~SnapLocalChanged
    /\ ~SnapRemoteChanged
    /\ (pc = "done" /\ result.error = <<>>) =>
         result = Success("Already up to date", SnapMetadata.googleDocId)

\* the pass after a pull that ended in success has returned 'Already up to
\* date'
C34_Witness ==
  /\ pc = "done"
  /\ last # None
  /\ last.success
  /\ last.branch = "Pull"
  /\ result.success
  /\ result.message = "Already up to date"

(***************************************************************************)
(* Two calls of syncFolder on the same folder that overlap: the auto-sync  *)
(* timer fires, or the user starts a sync, while a pass awaits a call.     *)
(* Nothing in SyncEngine or SyncCommands keeps the second from starting.   *)
(* The passes interleave at their awaits; `other` holds the one that is    *)
(* not running.  The folder is linked and its files were edited since.     *)
(***************************************************************************)
\* the document after a first sync of the files
SyncedDoc(fs) ==
  LET requests == ConvertRequests(parseFolder(FolderOf(fs, None), 1))
  IN IF requests = <<>> THEN [cells |-> EmptyBody, rev |-> 1]
     ELSE [cells |-> ApplyRequests(EmptyBody, requests), rev |-> 2]

OverlapInit ==
  /\ \E before, after \in UNION {[S -> FileTexts] : S \in SUBSET FileNames} :
       /\ calculateFolderHash(FolderOf(before, None)) #
            calculateFolderHash(FolderOf(after, None))
       /\ files = after
       /\ docs = [d \in DocIds |-> IF d = 1 THEN SyncedDoc(before) ELSE None]
       /\ metaFile = writeMetadata(
            CreatedMetadata(1, calculateFolderHash(FolderOf(before, None)),
                            GoogleDoc(1, SyncedDoc(before))))
  /\ settings = [refreshToken |-> TRUE, expired |-> FALSE]
  /\ oauth = TRUE
  /\ api = TRUE
  /\ pc = "idle"
  /\ loc = NoLocals
  /\ result = None
  /\ trace = <<>>
  /\ snap = None
  /\ last = None
  /\ edits = 0
  /\ batch = None
  /\ resolver = None
  /\ conv = None
  /\ other = None
  /\ plugin = None

\* syncFolder is called while a pass awaits: the pass waits, the new one runs
syncFolder_overlapping ==
  /\ pc \notin {"idle", "done"}
  /\ other = None
  /\ other' = [pc |-> pc, loc |-> loc, result |-> result, trace |-> trace]
  /\ pc' = "ensureValidToken"
  /\ loc' = NoLocals
  /\ result' = None
  /\ trace' = <<>>
  /\ UNCHANGED <<files, metaFile, docs, settings, oauth, api, snap, last, edits,
                 batch, resolver, conv, plugin>>

\* the call the waiting pass awaited settles: it runs, the other one waits
Resume ==
  /\ other # None
  /\ other.pc # "done"
  /\ other' = [pc |-> pc, loc |-> loc, result |-> result, trace |-> trace]
  /\ pc' = other.pc
  /\ loc' = other.loc
  /\ result' = other.result
  /\ trace' = other.trace
  /\ UNCHANGED <<files, metaFile, docs, settings, oauth, api, snap, last, edits,
                 batch, resolver, conv, plugin>>

OverlapNext ==
  \/ syncFolder
  \/ syncFolder_overlapping
  \/ Resume
  \/ ensureValidToken
  \/ syncFolder_hasMetadata
  \/ syncExisting_readMetadata
  \/ syncExisting_calculateFolderHash
  \/ syncExisting_getDocument
  \/ handleConflict_parseFolder
  \/ pushToRemote_parseFolder
  \/ clearDocument_getDocument
  \/ clearDocument_batchUpdate
  \/ convertToGoogleDocs_batchUpdate
  \/ pushToRemote_calculateFolderHash
  \/ pushToRemote_getDocument
  \/ pushToRemote_writeMetadata

OverlapSpec == OverlapInit /\ [][OverlapNext]_vars

\* both passes have ended in success on the Push branch
BothPushed ==
  /\ other # None
  /\ pc = "done"
  /\ other.pc = "done"
  /\ loc.branch = "Push"
  /\ other.loc.branch = "Push"
  /\ result.success
  /\ other.result.success

(***************************************************************************)
(* C35.  When two passes on the same linked folder overlap and both take   *)
(* the Push branch, then once both have ended the document is one          *)
(* rendering of the local tree into the cleared document, nothing twice    *)
(* and nothing mixed, and the metadata describes that document.            *)
(***************************************************************************)
C35_OverlappingPushes ==
  BothPushed =>
    /\ docs[1].cells = SyncedDoc(files).cells
    /\ readMetadata.contentHash = calculateFolderHash(Folder)
    /\ readMetadata.revisionId = docs[1].rev
    /\ readMetadata.remoteContentHash =
         calculateContentHash(convertToMarkdown(GoogleDoc(1, docs[1])))

RECURSIVE InsertedBefore(_, _)
\* total length of the texts inserted by the requests before the k-th
InsertedBefore(requests, k) ==
  IF k <= 1 THEN 0
  ELSE InsertedBefore(requests, k - 1)
       + (IF requests[k - 1].op = "insertText"
          THEN Len(requests[k - 1].text) ELSE 0)

\* the k-th request restyles a stretch of the text an earlier request inserts
InsideEarlierInsert(requests, k) ==
  \E j \in 1..(k - 1) :
    /\ requests[j].op = "insertText"
    /\ requests[j].index <= requests[k].startIndex
    /\ requests[k].endIndex <= requests[j].index + Len(requests[j].text)

LineCount(content) == Cardinality({k \in 1..Len(content) : content[k] = NL}) + 1

\* the largest of three numbers
Max3(a, b, c) ==
  IF a >= b /\ a >= c THEN a ELSE IF b >= c THEN b ELSE c

(***************************************************************************)
(* C37.  A line merge that is not null has exactly as many lines as the    *)
(* longest of the local, remote and base texts: where a text has no line,  *)
(* an empty line is merged, so the result is never shorter, in lines, than *)
(* any of the three.  The merge of autoResolve on three different texts is *)
(* that line merge.                                                        *)
(***************************************************************************)
C37_MergeKeepsLineCount ==
  Returned("autoResolve") =>
    LET localContent == resolver.args.localContent
        remoteContent == resolver.args.remoteContent
        baseContent == resolver.args.baseContent
        lineMerge == tryLineMerge(localContent, remoteContent, baseContent)
    IN /\ PairwiseDifferent(localContent, remoteContent, baseContent) =>
            resolver.merged = lineMerge
       /\ ~lineMerge.null =>
            /\ LineCount(lineMerge.content) =
                 Max3(LineCount(localContent), LineCount(remoteContent),
                      LineCount(baseContent))
            /\ LineCount(lineMerge.content) >= LineCount(localContent)
            /\ LineCount(lineMerge.content) >= LineCount(remoteContent)
            /\ LineCount(lineMerge.content) >= LineCount(baseContent)

\* three different texts were merged: the local one has one line, the others
\* two, and the merge is the local line followed by an empty line
C37_Witness ==
  /\ Returned("autoResolve")
  /\ PairwiseDifferent(resolver.args.localContent,
                       resolver.args.remoteContent,
                       resolver.args.baseContent)
  /\ ~resolver.merged.null
  /\ LineCount(resolver.args.localContent) = 1
  /\ LineCount(resolver.args.remoteContent) = 2
  /\ resolver.args.localContent # <<>>
  /\ resolver.merged.content = resolver.args.localContent \o <<NL>>

\* the loop of generateDiff has run no more often than the two texts have
\* lines and has added at most one entry per iteration; comparing a text with
\* itself returns no entry
DiffIsBounded ==
  (resolver # None /\ resolver.call = "generateDiff") =>
    /\ resolver.iterations <= Len(resolver.oldLines) + Len(resolver.newLines)
    /\ Len(resolver.diffs) <= resolver.iterations
    /\ (resolver.pc = "returned"
        /\ resolver.args.oldContent = resolver.args.newContent) =>
         resolver.diffs = <<>>

\* an iteration moves the old cursor, the new cursor or both, and none back
CursorAdvances ==
  generateDiff_while =>
    /\ resolver'.i >= resolver.i
    /\ resolver'.j >= resolver.j
    /\ resolver'.i > resolver.i \/ resolver'.j > resolver.j

(***************************************************************************)
(* C38.  generateDiff terminates on every pair of texts: each iteration of *)
(* its loop advances the old cursor, the new cursor or both, so the loop   *)
(* runs at most (old lines + new lines) times and returns at most that     *)
(* many entries; generateDiff(x, x) is the empty list.                     *)
(***************************************************************************)
C38_GenerateDiffTerminates ==
  /\ []DiffIsBounded
  /\ [][CursorAdvances]_vars
  /\ (resolver.pc = "while") ~> (resolver.pc = "returned")

\* a call on two texts of three lines with no line in common has returned
\* after three iterations with three entries
C38_Witness ==
  /\ Returned("generateDiff")
  /\ Len(resolver.oldLines) = 3
  /\ Len(resolver.newLines) = 3
  /\ resolver.iterations = 3
  /\ Len(resolver.diffs) = 3

(***************************************************************************)
(* The plugin object and its auto-sync timer.  `plugin` holds the state of *)
(* the plugin (constructed, loaded, unloaded), settings.autoSyncInterval,  *)
(* the private field autoSyncInterval (None for null, else the handle),    *)
(* the interval timers of the window that are running, the handles given   *)
(* to registerInterval, whether a change of the setting awaits             *)
(* saveSettings, and the calls the ticks made.                             *)
(***************************************************************************)
\* the options of the auto-sync dropdown of the settings tab, in minutes
IntervalOptions == {0, 5, 15, 30, 60}

Handle(id) == [id |-> id]

\* what a tick of the timer calls
SilentSyncAll == [method |-> "syncAllFolders", silent |-> TRUE]

TimerInit ==
  /\ files = <<>>
  /\ metaFile = None
  /\ docs = [d \in DocIds |-> None]
  /\ settings = [refreshToken |-> FALSE, expired |-> FALSE]
  /\ oauth = FALSE
  /\ api = FALSE
  /\ pc = "idle"
  /\ loc = NoLocals
  /\ result = None
  /\ trace = <<>>
  /\ snap = None
  /\ last = None
  /\ edits = 0
  /\ batch = None
  /\ resolver = None
  /\ conv = None
  /\ other = None
  /\ plugin = [state |-> "constructed", interval |-> 0,
               autoSyncInterval |-> None, timers |-> {}, registered |-> {},
               nextId |-> 1, saving |-> FALSE, calls |-> <<>>]

TimerFrame ==
  UNCHANGED <<files, metaFile, docs, settings, oauth, api, pc, loc, result,
              trace, snap, last, edits, batch, resolver, conv, other>>

\* window.clearInterval on the field, when it is not null
ClearedTimers(p) ==
  IF p.autoSyncInterval # None THEN p.timers \ {p.autoSyncInterval.id}
  ELSE p.timers

\* setupAutoSync on the plugin p
SetupAutoSync(p) ==
  IF p.interval > 0
  THEN [p EXCEPT !.autoSyncInterval = Handle(p.nextId),
                 !.timers = ClearedTimers(p) \cup {p.nextId},
                 !.registered = @ \cup {p.nextId},
                 !.nextId = @ + 1]
  ELSE [p EXCEPT !.autoSyncInterval = None, !.timers = ClearedTimers(p)]

\* the window still has a timer to hand out, should one be asked for
CanSetup(p) == p.interval > 0 => p.nextId <= MaxTimers

\* onload: the stored settings are loaded and setupAutoSync is called
onload ==
  /\ plugin.state = "constructed"
  /\ \E stored \in IntervalOptions :
       plugin' = [SetupAutoSync([plugin EXCEPT !.interval = stored])
                    EXCEPT !.state = "loaded"]
  /\ TimerFrame

\* the dropdown changes: the setting is assigned and saveSettings is awaited
onChange ==
  /\ plugin.state = "loaded"
  /\ ~plugin.saving
  /\ \E value \in IntervalOptions :
       plugin' = [plugin EXCEPT !.interval = value, !.saving = TRUE]
  /\ TimerFrame

\* saveSettings has settled: the handler of the dropdown calls setupAutoSync
onChange_setupAutoSync ==
  /\ plugin.saving
  /\ CanSetup(plugin)
  /\ plugin' = [SetupAutoSync(plugin) EXCEPT !.saving = FALSE]
  /\ TimerFrame

\* setupAutoSync is called on the loaded plugin
setupAutoSync ==
  /\ plugin.state = "loaded"
  /\ CanSetup(plugin)
  /\ plugin' = SetupAutoSync(plugin)
  /\ TimerFrame

\* a running timer ticks
tick ==
  /\ plugin.timers # {}
  /\ Len(plugin.calls) < MaxTicks
  /\ plugin' = [plugin EXCEPT !.calls = Append(@, SilentSyncAll)]
  /\ TimerFrame

\* the plugin is unloaded: onunload clears the timer of the field and leaves
\* the field as it is; the registered intervals are cleared with it
onunload ==
  /\ plugin.state = "loaded"
  /\ plugin' = [plugin EXCEPT !.state = "unloaded",
                              !.timers = ClearedTimers(plugin) \ plugin.registered]
  /\ TimerFrame

TimerNext ==
  \/ onload
  \/ onChange
  \/ onChange_setupAutoSync
  \/ setupAutoSync
  \/ tick
  \/ onunload

TimerSpec == TimerInit /\ [][TimerNext]_vars

(***************************************************************************)
(* C39.  Whatever the plugin has gone through, at most one auto-sync timer *)
(* is running; none is running while autoSyncInterval is 0, and none after *)
(* onunload; and a tick calls nothing but the silent syncAllFolders.       *)
(***************************************************************************)
C39_OneTimerAtMost ==
  /\ Cardinality(plugin.timers) <= 1
  /\ (plugin.state # "constructed" /\ plugin.interval = 0) => plugin.timers = {}
  /\ plugin.state = "unloaded" => plugin.timers = {}
  /\ \A k \in 1..Len(plugin.calls) : plugin.calls[k] = SilentSyncAll
====
